---- MODULE Spec2Model ----
(***************************************************************************)
(* KUSDOracle price registry (contract KUSDOracle) as a state machine.     *)
(* One action per external function; a reverted call leaves the contract   *)
(* state as it was and is visible only in the transaction record `call'.   *)
(* Prices are whole numbers far below 2^256 / 10000, so the checked        *)
(* arithmetic of Solidity 0.8 never overflows here; the one arithmetic     *)
(* revert that small numbers can produce, division by a zero median, is    *)
(* modelled as the result "panic".                                         *)
(*                                                                         *)
(* Spec is the registry. NodeSpec is one oracle node process (class        *)
(* OracleNode): up to two overlapping invocations of updateAllPrices, each *)
(* walking the tracked assets, with the adapters, the provider and the     *)
(* chain as environment; NodeFairSpec adds the progress the node's event   *)
(* loop and timers give, ShutdownSpec adds stop() and the signal handlers  *)
(* of main. FetchSpec, MedianSpec, AggregateSpec and ValidateSpec apply    *)
(* fetchPricesFromAllSources, the two medians, the aggregation step of     *)
(* updateAssetPrice and the registry's _validatePrice to every input of a  *)
(* bounded set. PoolSpec follows the promises of one                       *)
(* fetchPricesFromAllSources call, RetrySpec / RetryFairSpec one call of   *)
(* PriceSource.withRetry, HealthSpec one run of healthCheck. StableSpec    *)
(* is a round of a stablecoin through the adapters' getPrice, with their   *)
(* fixed prices. FactorySpec is contract KUSDOracleFactory.                *)
(***************************************************************************)
EXTENDS Integers, Sequences, FiniteSets, TLC

\* ---------------------------------------------------------------- bounds
MaxOps == 4            \* state-changing transactions per behaviour
MaxSources == 3        \* longest source list a caller submits
MaxNodeList == 3       \* longest nodeList
DeployTime == 5000     \* block.timestamp of the deployment (Unix seconds)
MaxElapsed == 3601     \* seconds modelled after the deployment

\* ------------------------------------------------------ program constants
STALENESS_THRESHOLD == 3600
MAX_DEVIATION == 1000
MIN_SOURCES == 3
InitialReputation == 100

\* ----------------------------------------------------------------- inputs
ZeroAddr == "0x0"
Factory == "factory"
Owner == "owner"
Node1 == "node1"
Addr == {Factory, Owner, Node1}
\* identities proposed for registration as oracle nodes
Registrants == {Node1, Owner, ZeroAddr}
\* externally owned accounts; the factory calls the oracle only through
\* batchRegisterNode, batchDeactivateNode and emergencyInvalidateAll
EOA == Addr \ {Factory}
Stakes == {1000, 2000}
Candidates == {0, 900, 1009, 1110}
SourceVals == {0, 1009}
EmergencyPrices == {0, 1200}
\* seconds between one transaction and the next (0: same block)
TimeSteps == {0, 3600, 3601}
SourceNames == <<"binance", "coinbase", "coingecko", "kraken", "okx">>

RECURSIVE SeqsOfLen(_, _)
SeqsOfLen(S, n) ==
  IF n = 0 THEN {<<>>}
  ELSE {Append(s, x) : s \in SeqsOfLen(S, n - 1), x \in S}

\* submitted source lists: every multiset of source values of each length,
\* in descending order (the order that makes the sort do all its swaps)
Descending(s) == \A i \in 1..(Len(s) - 1) : s[i] >= s[i + 1]
SourceLists ==
  {s \in UNION {SeqsOfLen(SourceVals, n) : n \in (MIN_SOURCES - 1)..MaxSources} :
     Descending(s)}
\* the source names submitted with a list of n prices: as many, or one fewer
NameLists(n) == {SubSeq(SourceNames, 1, k) : k \in {n - 1, n}}

\* wards, priceData, nodes, nodeList: the contract's storage
\* now:       block.timestamp of the current block
\* call:      the transaction just executed with its outcome, or Idle
\* ops:       number of transactions mined successfully so far
\* lastWrite: time of the last accepted price write, -1 before the first
VARIABLES wards, priceData, nodes, nodeList, now, call, ops, lastWrite

vars == <<wards, priceData, nodes, nodeList, now, call, ops, lastWrite>>

\* State of one oracle node process (class OracleNode).
\* isRunning:    this.isRunning
\* scheduled:    scheduleUpdates has registered the cron tasks
\* failureCount: this.failureCount, 0 where the object has no entry
\* lastPrices:   this.lastPrices, NoPrice where the object has no entry
\* published:    per asset, the priceData of that asset's registry: what the
\*               node's last applied updatePrice wrote, Unpublished before
\*               the first
\* rounds:       the invocations of updateAllPrices in progress, one per slot
\* cycles:       number of invocations of updateAllPrices started so far
\* alertedAt:    per asset, the values of failureCount with which sendAlert
\*               has been called
VARIABLES isRunning, scheduled, failureCount, lastPrices, published, rounds,
          cycles, alertedAt

nodeVars ==
  <<isRunning, scheduled, failureCount, lastPrices, published, rounds, cycles,
    alertedAt>>

\* Argument and result of a function applied on its own.
VARIABLES fnArg, fnRet

fnVars == <<fnArg, fnRet>>

\* State of the oracle factory (contract KUSDOracleFactory).
\* factoryWards: the factory's wards mapping
\* oracles:      asset => oracle address, ZeroAddr where nothing is stored
\* oracleAssets: oracle address => asset, ZeroAsset where nothing is stored
\* assetList:    the assets in the order they were deployed
\* factoryCall:  the last transaction sent to the factory and its outcome
VARIABLES factoryWards, oracles, oracleAssets, assetList, factoryCall

factoryVars == <<factoryWards, oracles, oracleAssets, assetList, factoryCall>>

allVars == <<vars, nodeVars, fnVars, factoryVars>>

\* this.assets, in the order updateAllPrices walks them; USDC is tracked but
\* has no oracle address configured
Assets == <<"BTC", "DAI", "USDC">>
AssetSet == {Assets[i] : i \in 1..Len(Assets)}
OracleAssets == {"BTC", "DAI"}

\* invocations of updateAllPrices that can be in progress at once: node-cron
\* starts one every minute whether or not the previous one has returned
Slots == {1, 2}

NoPrice == [price |-> 0, sources |-> 0]
NoTx == [price |-> 0, sourcePrices |-> <<>>, sources |-> <<>>]

\* priceData of a registry nobody has written to
Unpublished == [price |-> 0, timestamp |-> 0, valid |-> FALSE]

\* an invocation slot: pc is where the invocation stands ("Idle": none in
\* progress), idx the index in Assets of the asset whose round is running,
\* attempted the assets updateAssetPrice was called for, sourcePrices,
\* medianPrice and tx the locals of updateAssetPrice, status the mined
\* transaction's outcome and minedAt the time of its block
Round(pc, idx, attempted, sourcePrices, medianPrice, tx, status, minedAt) ==
  [pc |-> pc, idx |-> idx, attempted |-> attempted, sourcePrices |-> sourcePrices,
   medianPrice |-> medianPrice, tx |-> tx, status |-> status, minedAt |-> minedAt]

IdleRound(attempted) == Round("Idle", 0, attempted, <<>>, 0, NoTx, "none", 0)

\* the node as its constructor leaves it
Constructed ==
  /\ isRunning = FALSE
  /\ scheduled = FALSE
  /\ failureCount = [a \in AssetSet |-> 0]
  /\ lastPrices = [a \in AssetSet |-> NoPrice]
  /\ published = [a \in AssetSet |-> Unpublished]
  /\ rounds = [s \in Slots |-> IdleRound({})]
  /\ cycles = 0
  /\ alertedAt = [a \in AssetSet |-> {}]

NoFn == [name |-> "none"]

\* bytes32(0)
ZeroAsset == ""
\* the assets oracles are deployed for
FactoryAssets == {"BTC", "DAI"}
\* who sends transactions to the factory: its deployer and another account
FactoryCallers == {Owner, Node1}
\* the addresses of the oracles the factory creates, in the order of their
\* creation, and an oracle contract deployed by someone else
CreatedOracles == <<"oracle1", "oracle2">>
OracleAddrs == {CreatedOracles[i] : i \in 1..Len(CreatedOracles)} \cup {"external"}

FactoryTx(op, caller, asset, oracle, res) ==
  [op |-> op, caller |-> caller, asset |-> asset, oracle |-> oracle, result |-> res]

\* the factory as its constructor leaves it
Created ==
  /\ factoryWards = [a \in FactoryCallers |-> IF a = Owner THEN 1 ELSE 0]
  /\ oracles = [a \in FactoryAssets |-> ZeroAddr]
  /\ oracleAssets = [o \in OracleAddrs |-> ZeroAsset]
  /\ assetList = <<>>
  /\ factoryCall = FactoryTx("none", ZeroAddr, ZeroAsset, ZeroAddr, "ok")
NoCall == fnArg = NoFn /\ fnRet = NoFn

\* ------------------------------------------------------------- structures
PriceData(p, t, v) == [price |-> p, timestamp |-> t, valid |-> v]

OracleNode(a, s, r, act, lu) ==
  [nodeAddress |-> a, stake |-> s, reputation |-> r, active |-> act, lastUpdate |-> lu]

\* a mapping slot never written reads as the all-zero struct
EmptyNode == OracleNode(ZeroAddr, 0, 0, FALSE, 0)

Tx(op, caller, usr, amount, sp, src, res) ==
  [op |-> op, caller |-> caller, usr |-> usr, amount |-> amount,
   sourcePrices |-> sp, sources |-> src, result |-> res]

\* no transaction is executing: the last receipt has been delivered
Idle == Tx("none", ZeroAddr, ZeroAddr, 0, <<>>, <<>>, "ok")

\* ---------------------------------------------------------- pure functions
\* inner loop of the bubble sort: j runs from j to n - i - 2 (1-based: n - i)
RECURSIVE BubbleInner(_, _, _)
BubbleInner(s, j, last) ==
  IF j > last THEN s
  ELSE IF s[j] > s[j + 1]
       THEN BubbleInner([s EXCEPT ![j] = s[j + 1], ![j + 1] = s[j]], j + 1, last)
       ELSE BubbleInner(s, j + 1, last)

\* outer loop: i = 0 .. length - 2
RECURSIVE BubbleOuter(_, _)
BubbleOuter(s, i) ==
  IF i >= Len(s) - 1 THEN s
  ELSE BubbleOuter(BubbleInner(s, 1, Len(s) - i - 1), i + 1)

BubbleSort(prices) == BubbleOuter(prices, 0)

\* variant: the mean of the two middle values is rounded up
CalculateMedianRoundedUp(prices) ==
  LET sortedPrices == BubbleSort(prices)
      mid == Len(sortedPrices) \div 2
  IN IF Len(sortedPrices) % 2 = 0
     THEN (sortedPrices[mid] + sortedPrices[mid + 1] + 1) \div 2
     ELSE sortedPrices[mid + 1]

CalculateMedian(prices) ==
  LET sortedPrices == BubbleSort(prices)
      mid == Len(sortedPrices) \div 2      \* 0-based index
  IN IF Len(sortedPrices) % 2 = 0
     THEN (sortedPrices[mid] + sortedPrices[mid + 1]) \div 2
     ELSE sortedPrices[mid + 1]


\* variant: the deviation is scaled to tenths of a percent
DeviationPerMille(newPrice, median) ==
  IF newPrice > median
  THEN ((newPrice - median) * 1000) \div median
  ELSE ((median - newPrice) * 1000) \div median

Deviation(newPrice, median) ==
  IF newPrice > median
  THEN ((newPrice - median) * 10000) \div median
  ELSE ((median - newPrice) * 10000) \div median

\* "true", "false", or "panic" when the median is zero (division by zero)
ValidatePrice(newPrice, sourcePrices) ==
  IF Len(sourcePrices) < MIN_SOURCES THEN "false"
  ELSE LET median == CalculateMedian(sourcePrices)
       IN IF median = 0 THEN "panic"
          ELSE IF Deviation(newPrice, median) <= MAX_DEVIATION THEN "true" ELSE "false"

\* variant: an active node passes the auth modifier as a ward does
AuthOrActiveNode(caller) == wards[caller] = 1 \/ nodes[caller].active

Auth(caller) == wards[caller] = 1

\* ------------------------------------------------------------------ views

\* variant: a price exactly STALENESS_THRESHOLD seconds old is stale
IsFreshStrict == now - priceData.timestamp < STALENESS_THRESHOLD

IsFresh == now - priceData.timestamp <= STALENESS_THRESHOLD


\* variant: peek reports the stored flag without the freshness test
PeekStoredFlag ==
  [price |-> priceData.price,
   valid |-> priceData.valid /\ priceData.price > 0]

Peek ==
  [price |-> priceData.price,
   valid |-> priceData.valid /\ IsFresh /\ priceData.price > 0]

\* variant: read does not look at the age of the price
ReadIgnoresAge ==
  IF ~priceData.valid THEN "invalid-price" ELSE "ok"

Read ==
  IF ~priceData.valid THEN "invalid-price"
  ELSE IF ~IsFresh THEN "stale-price"
  ELSE "ok"

\* the value read returns when it does not revert
ReadPrice == priceData.price

GetPriceData == <<priceData.price, priceData.timestamp, priceData.valid>>

\* getActiveNodeCount: one count per entry of nodeList whose record is active
GetActiveNodeCount ==
  Cardinality({i \in 1..Len(nodeList) : nodes[nodeList[i]].active})

\* --------------------------------------------------------- storage writes
\* nodes[nodeAddress] = OracleNode({...}) in registerNode
NewNode(nodeAddress, stake) ==
  OracleNode(nodeAddress, stake, InitialReputation, TRUE, 0)


\* variant: deactivation deletes the record
DeactivatedErased(node) == EmptyNode

\* nodes[nodeAddress].active = false in deactivateNode
Deactivated(node) == [node EXCEPT !.active = FALSE]


\* variant: a publish also raises the node's reputation
TouchedAndRewarded(node, t) == [node EXCEPT !.lastUpdate = t, !.reputation = @ + 1]

\* nodes[msg.sender].lastUpdate = block.timestamp in updatePrice
Touched(node, t) == [node EXCEPT !.lastUpdate = t]


\* variant: invalidation clears the whole slot
InvalidatedErased(pd) == PriceData(0, 0, FALSE)

\* priceData.valid = false in invalidatePrice
Invalidated(pd) == [pd EXCEPT !.valid = FALSE]

\* --------------------------------------------------------------- lifecycle
\* KUSDOracleFactory.deployOracle: the factory constructs the oracle (so the
\* factory is msg.sender of the constructor) and then relies itself and the
\* deployer.
Deployed ==
  /\ wards = [a \in Addr |-> IF a \in {Factory, Owner} THEN 1 ELSE 0]
  /\ priceData = PriceData(0, 0, FALSE)
  /\ nodes = [a \in Addr |-> EmptyNode]
  /\ nodeList = <<>>
  /\ now = DeployTime
  /\ call = Idle
  /\ ops = 0
  /\ lastWrite = -1

\* an oracle as deployed and a node as constructed; no function is applied
\* on its own
Init ==
  /\ Deployed
  /\ Constructed
  /\ Created
  /\ NoCall

\* a reverted transaction changes nothing but its receipt
Revert(tx) ==
  /\ call' = tx
  /\ UNCHANGED <<wards, priceData, nodes, nodeList, now, ops, lastWrite>>
  /\ UNCHANGED <<nodeVars, fnVars, factoryVars>>

\* a transaction that is mined successfully
Mined(tx) ==
  /\ ops < MaxOps
  /\ ops' = ops + 1
  /\ call' = tx
  /\ UNCHANGED <<now, nodeVars, fnVars, factoryVars>>

\* variant: the auth modifier lets every caller through
AuthResultOpen(caller) == "ok"

AuthResult(caller) == IF ~Auth(caller) THEN "not-authorized" ELSE "ok"

Rely(caller, usr) ==
  LET res == AuthResult(caller)
      tx == Tx("rely", caller, usr, 0, <<>>, <<>>, res)
  IN /\ call = Idle
     /\ IF res # "ok" THEN Revert(tx)
        ELSE /\ wards' = [wards EXCEPT ![usr] = 1]
             /\ Mined(tx)
             /\ UNCHANGED <<priceData, nodes, nodeList, lastWrite>>

Deny(caller, usr) ==
  LET res == AuthResult(caller)
      tx == Tx("deny", caller, usr, 0, <<>>, <<>>, res)
  IN /\ call = Idle
     /\ IF res # "ok" THEN Revert(tx)
        ELSE /\ wards' = [wards EXCEPT ![usr] = 0]
             /\ Mined(tx)
             /\ UNCHANGED <<priceData, nodes, nodeList, lastWrite>>


\* variant: an active node may be registered again
RegisterNodeResultNoActiveCheck(caller, nodeAddress) ==
  IF ~Auth(caller) THEN "not-authorized"
  ELSE IF nodeAddress = ZeroAddr THEN "invalid-address"
  ELSE "ok"

RegisterNodeResult(caller, nodeAddress) ==
  IF ~Auth(caller) THEN "not-authorized"
  ELSE IF nodeAddress = ZeroAddr THEN "invalid-address"
  ELSE IF nodes[nodeAddress].active THEN "node-already-active"
  ELSE "ok"

RegisterNode(caller, nodeAddress, stake) ==
  LET res == RegisterNodeResult(caller, nodeAddress)
      tx == Tx("registerNode", caller, nodeAddress, stake, <<>>, <<>>, res)
  IN /\ call = Idle
     /\ IF res # "ok" THEN Revert(tx)
        ELSE /\ Len(nodeList) < MaxNodeList
             /\ nodes' = [nodes EXCEPT ![nodeAddress] = NewNode(nodeAddress, stake)]
             /\ nodeList' = Append(nodeList, nodeAddress)
             /\ Mined(tx)
             /\ UNCHANGED <<wards, priceData, lastWrite>>

DeactivateNodeResult(caller, nodeAddress) ==
  IF ~Auth(caller) THEN "not-authorized"
  ELSE IF ~nodes[nodeAddress].active THEN "node-not-active"
  ELSE "ok"

DeactivateNode(caller, nodeAddress) ==
  LET res == DeactivateNodeResult(caller, nodeAddress)
      tx == Tx("deactivateNode", caller, nodeAddress, 0, <<>>, <<>>, res)
  IN /\ call = Idle
     /\ IF res # "ok" THEN Revert(tx)
        ELSE /\ nodes' = [nodes EXCEPT ![nodeAddress] = Deactivated(@)]
             /\ Mined(tx)
             /\ UNCHANGED <<wards, priceData, nodeList, lastWrite>>


\* variant: the caller's active flag is not checked
UpdatePriceResultAnyCaller(caller, newPrice, sourcePrices, sources) ==
  IF ~(newPrice > 0) THEN "invalid-price"
  ELSE IF ~(Len(sourcePrices) >= MIN_SOURCES) THEN "insufficient-sources"
  ELSE IF ~(Len(sourcePrices) = Len(sources)) THEN "mismatched-arrays"
  ELSE LET v == ValidatePrice(newPrice, sourcePrices)
       IN IF v = "panic" THEN "panic"
          ELSE IF v = "false" THEN "price-validation-failed"
          ELSE "ok"

\* variant: the array lengths are compared before the source count
UpdatePriceResultLengthsFirst(caller, newPrice, sourcePrices, sources) ==
  IF ~nodes[caller].active THEN "node-not-active"
  ELSE IF ~(newPrice > 0) THEN "invalid-price"
  ELSE IF ~(Len(sourcePrices) = Len(sources)) THEN "mismatched-arrays"
  ELSE IF ~(Len(sourcePrices) >= MIN_SOURCES) THEN "insufficient-sources"
  ELSE LET v == ValidatePrice(newPrice, sourcePrices)
       IN IF v = "panic" THEN "panic"
          ELSE IF v = "false" THEN "price-validation-failed"
          ELSE "ok"

\* variant: the candidate is also held against the price published before
UpdatePriceResultAgainstPublished(caller, newPrice, sourcePrices, sources) ==
  IF ~nodes[caller].active THEN "node-not-active"
  ELSE IF ~(newPrice > 0) THEN "invalid-price"
  ELSE IF ~(Len(sourcePrices) >= MIN_SOURCES) THEN "insufficient-sources"
  ELSE IF ~(Len(sourcePrices) = Len(sources)) THEN "mismatched-arrays"
  ELSE LET v == ValidatePrice(newPrice, sourcePrices)
       IN IF v = "panic" THEN "panic"
          ELSE IF v = "false" THEN "price-validation-failed"
          ELSE IF priceData.valid /\ Deviation(newPrice, priceData.price) > MAX_DEVIATION
               THEN "price-validation-failed"
          ELSE "ok"

UpdatePriceResult(caller, newPrice, sourcePrices, sources) ==
  IF ~nodes[caller].active THEN "node-not-active"
  ELSE IF ~(newPrice > 0) THEN "invalid-price"
  ELSE IF ~(Len(sourcePrices) >= MIN_SOURCES) THEN "insufficient-sources"
  ELSE IF ~(Len(sourcePrices) = Len(sources)) THEN "mismatched-arrays"
  ELSE LET v == ValidatePrice(newPrice, sourcePrices)
       IN IF v = "panic" THEN "panic"
          ELSE IF v = "false" THEN "price-validation-failed"
          ELSE "ok"

UpdatePrice(caller, newPrice, sourcePrices, sources) ==
  LET res == UpdatePriceResult(caller, newPrice, sourcePrices, sources)
      tx == Tx("updatePrice", caller, ZeroAddr, newPrice, sourcePrices, sources, res)
  IN /\ call = Idle
     /\ IF res # "ok" THEN Revert(tx)
        ELSE /\ priceData' = PriceData(newPrice, now, TRUE)
             /\ nodes' = [nodes EXCEPT ![caller] = Touched(@, now)]
             /\ lastWrite' = now
             /\ Mined(tx)
             /\ UNCHANGED <<wards, nodeList>>

\* variant: the emergency write is open to wards that are active nodes only
EmergencyUpdatePriceResultNodesOnly(caller, newPrice) ==
  IF ~Auth(caller) THEN "not-authorized"
  ELSE IF ~nodes[caller].active THEN "node-not-active"
  ELSE IF ~(newPrice > 0) THEN "invalid-price"
  ELSE "ok"

\* variant: emergencyUpdatePrice takes any price
EmergencyUpdatePriceResultAnyPrice(caller, newPrice) ==
  IF ~Auth(caller) THEN "not-authorized" ELSE "ok"

EmergencyUpdatePriceResult(caller, newPrice) ==
  IF ~Auth(caller) THEN "not-authorized"
  ELSE IF ~(newPrice > 0) THEN "invalid-price"
  ELSE "ok"

EmergencyUpdatePrice(caller, newPrice) ==
  LET res == EmergencyUpdatePriceResult(caller, newPrice)
      tx == Tx("emergencyUpdatePrice", caller, ZeroAddr, newPrice, <<>>, <<>>, res)
  IN /\ call = Idle
     /\ IF res # "ok" THEN Revert(tx)
        ELSE /\ priceData' = PriceData(newPrice, now, TRUE)
             /\ lastWrite' = now
             /\ Mined(tx)
             /\ UNCHANGED <<wards, nodes, nodeList>>

InvalidatePrice(caller) ==
  LET res == AuthResult(caller)
      tx == Tx("invalidatePrice", caller, ZeroAddr, 0, <<>>, <<>>, res)
  IN /\ call = Idle
     /\ IF res # "ok" THEN Revert(tx)
        ELSE /\ priceData' = Invalidated(priceData)
             /\ Mined(tx)
             /\ UNCHANGED <<wards, nodes, nodeList, lastWrite>>

\* the receipt is delivered and the chain's clock moves on: the next
\* transaction executes d seconds later
Tick(d) ==
  /\ call # Idle
  /\ now + d <= DeployTime + MaxElapsed
  /\ now' = now + d
  /\ call' = Idle
  /\ UNCHANGED <<wards, priceData, nodes, nodeList, ops, lastWrite>>
  /\ UNCHANGED <<nodeVars, fnVars, factoryVars>>

Next ==
  \/ \E c \in EOA, u \in Addr : Rely(c, u)
  \/ \E c \in EOA, u \in Addr : Deny(c, u)
  \/ \E c \in Addr, n \in Registrants, s \in Stakes : RegisterNode(c, n, s)
  \/ \E c \in Addr, n \in Registrants \ {ZeroAddr} : DeactivateNode(c, n)
  \/ \E c \in EOA, p \in Candidates, sp \in SourceLists :
       \E src \in NameLists(Len(sp)) : UpdatePrice(c, p, sp, src)
  \/ \E c \in EOA, p \in EmergencyPrices : EmergencyUpdatePrice(c, p)
  \/ \E c \in Addr : InvalidatePrice(c)
  \/ \E d \in TimeSteps : Tick(d)

Spec == Init /\ [][Next]_vars

TypeOK ==
  /\ wards \in [Addr -> {0, 1}]
  /\ priceData.valid \in BOOLEAN
  /\ Len(nodeList) <= MaxNodeList
  /\ now >= DeployTime
  /\ ops \in 0..MaxOps

\* ===================================================================
\* The oracle node (OracleNode.js) and its price sources
\* ===================================================================
\* A JavaScript number that stands for a price is held as a whole count of
\* half units: every quote of a source is a whole number of units (an even
\* count), so that the mean of two quotes is held exactly.
ALERT_THRESHOLD == 5
maxDeviation == 1000
HalfUnitWei == 5

\* this.sources, in insertion order
Sources ==
  <<"binance", "geckoterminal", "coinbase", "kucoin", "cryptocompare", "kraken", "okx">>
SourceSet == {Sources[i] : i \in 1..Len(Sources)}

\* skipSources[asset], empty where the table has no entry
skipSources(asset) == IF asset = "DAI" THEN {"binance", "kucoin"} ELSE {}

\* what source.getPrice(asset) does when it is called: it resolves to a
\* validated positive price, throws at once, or throws after withRetry has
\* used up its attempts
Up(p) == [kind |-> "ok", price |-> p]
Throws == [kind |-> "throw", price |-> 0]
Exhausted == [kind |-> "exhausted", price |-> 0]

null == [source |-> "null", price |-> 0]

\* variant: a failed fetch is kept as a reading of price 0
SourcePromiseKeepsFailures(asset, sourceName, outcomes) ==
  IF sourceName \in skipSources(asset) THEN null
  ELSE [source |-> sourceName, price |-> outcomes[sourceName].price]

\* the promise of one source: null for a skipped pair or a failed fetch,
\* otherwise the reading
SourcePromise(asset, sourceName, outcomes) ==
  IF sourceName \in skipSources(asset) THEN null
  ELSE IF outcomes[sourceName].kind = "ok"
       THEN [source |-> sourceName, price |-> outcomes[sourceName].price]
       ELSE null

\* the sources whose getPrice is called for the asset
AdaptersCalled(asset) == SourceSet \ skipSources(asset)

\* Promise.allSettled over the promises, then the fulfilled non-null values
fetchPricesFromAllSources(asset, outcomes) ==
  LET results == [i \in 1..Len(Sources) |-> SourcePromise(asset, Sources[i], outcomes)]
  IN SelectSeq(results, LAMBDA r : r # null)

\* Array.prototype.sort with (a, b) => a - b
RECURSIVE InsertSorted(_, _)
InsertSorted(sorted, x) ==
  IF sorted = <<>> THEN <<x>>
  ELSE IF x < sorted[1] THEN <<x>> \o sorted
  ELSE <<sorted[1]>> \o InsertSorted(Tail(sorted), x)

RECURSIVE SortAscending(_)
SortAscending(a) ==
  IF a = <<>> THEN <<>>
  ELSE InsertSorted(SortAscending(SubSeq(a, 1, Len(a) - 1)), a[Len(a)])

\* variant: the upper of the two middle elements for an even count
calculateMedianUpper(prices) ==
  LET sorted == SortAscending(prices)
      mid == Len(sorted) \div 2
  IN sorted[mid + 1]

\* calculateMedian of OracleNode and of PriceMonitor (sorted[mid] of the
\* 0-based source is sorted[mid + 1] here); the sum of two whole-unit
\* quotes, counted in half units, is halved exactly
calculateMedian(prices) ==
  LET sorted == SortAscending(prices)
      mid == Len(sorted) \div 2
  IN IF Len(sorted) % 2 = 0
     THEN (sorted[mid] + sorted[mid + 1]) \div 2
     ELSE sorted[mid + 1]

\* the caller's array after calculateMedian: the sort runs on the copy
\* [...prices]
pricesAfterCalculateMedian(prices) == prices

MathAbs(x) == IF x < 0 THEN -x ELSE x

\* validatePrice: "ok" when it returns, otherwise the reason it throws for.
\* deviation = |newPrice - median| / median * 10000 is Infinity for a zero
\* median and negative for a negative one. The comparison with the last
\* known price only logs.
validatePrice(newPrice, sourcePrices) ==
  IF newPrice <= 0 THEN "invalid-price"
  ELSE LET median == calculateMedian(sourcePrices)
       IN IF median = 0 THEN "deviation-too-high"
          ELSE IF median > 0 /\ MathAbs(newPrice - median) * 10000 > maxDeviation * median
               THEN "deviation-too-high"
               ELSE "ok"

\* ethers.parseEther(x.toString()): HalfUnitWei stands for the 5 * 10^17 wei
\* of half a unit
parseEther(x) == x * HalfUnitWei

\* variant: the candidate of the transaction is the first reading
NodeTxOfFirstReading(medianPrice, sourcePrices) ==
  [price |-> parseEther(sourcePrices[1].price),
   sourcePrices |-> [i \in 1..Len(sourcePrices) |-> parseEther(sourcePrices[i].price)],
   sources |-> [i \in 1..Len(sourcePrices) |-> sourcePrices[i].source]]

\* the arguments of the updatePrice transaction built from the readings
NodeTx(medianPrice, sourcePrices) ==
  [price |-> parseEther(medianPrice),
   sourcePrices |-> [i \in 1..Len(sourcePrices) |-> parseEther(sourcePrices[i].price)],
   sources |-> [i \in 1..Len(sourcePrices) |-> sourcePrices[i].source]]

\* the outcome of updatePrice at the registry for a transaction of the node:
\* the checks of updatePrice in their order, the caller's active flag being
\* that of the node on the asset's oracle
RegistryResult(active, tx) ==
  IF ~active THEN "node-not-active"
  ELSE IF ~(tx.price > 0) THEN "invalid-price"
  ELSE IF ~(Len(tx.sourcePrices) >= MIN_SOURCES) THEN "insufficient-sources"
  ELSE IF ~(Len(tx.sourcePrices) = Len(tx.sources)) THEN "mismatched-arrays"
  ELSE LET v == ValidatePrice(tx.price, tx.sourcePrices)
       IN IF v = "panic" THEN "panic"
          ELSE IF v = "false" THEN "price-validation-failed"
          ELSE "ok"

\* variant: the alert sink throws
sendAlertThrows == "thrown"

\* sendAlert: logs and returns
sendAlert == "returned"

\* ------------------------------------------------- one node's price rounds
MaxCycles == 6

\* the adapters' behaviour in one round: every source down; three sources
\* up, of which binance is skipped for DAI; four sources up
AllDown == [n \in SourceSet |-> Exhausted]
ThreeUp ==
  [n \in SourceSet |->
     IF n \in {"binance", "geckoterminal"} THEN Up(200)
     ELSE IF n = "coinbase" THEN Up(208)
     ELSE Throws]
FourUp ==
  [n \in SourceSet |->
     IF n \in {"geckoterminal", "coinbase"} THEN Up(200)
     ELSE IF n \in {"cryptocompare", "kraken"} THEN Up(208)
     ELSE Exhausted]
RoundOutcomes == {AllDown, ThreeUp, FourUp}

Asset(s) == Assets[rounds[s].idx]

\* variant: the counter starts again once it has reached the threshold
CaughtResetByAlert(count) == IF count + 1 >= ALERT_THRESHOLD THEN 0 ELSE count + 1

\* the catch block: (this.failureCount[asset] || 0) + 1
Caught(count) == count + 1

\* the for loop goes on to the next asset, or updateAllPrices returns
NextRound(r) ==
  IF r.idx = Len(Assets) THEN IdleRound(r.attempted)
  ELSE Round("Begin", r.idx + 1, r.attempted, <<>>, 0, NoTx, "none", 0)

\* updateAllPrices is called: by start, or by the cron task
BeginCycle(s) ==
  /\ rounds' = [rounds EXCEPT ![s] = Round("Begin", 1, {}, <<>>, 0, NoTx, "none", 0)]
  /\ cycles' = cycles + 1

\* variant: a failed round clears the asset's last known price
RoundFailedForgetsPrice(s, r) ==
  LET asset == Assets[r.idx]
      count == Caught(failureCount[asset])
      alert == count >= ALERT_THRESHOLD
  IN /\ failureCount' = [failureCount EXCEPT ![asset] = count]
     /\ alertedAt' = IF alert THEN [alertedAt EXCEPT ![asset] = @ \cup {count}]
                     ELSE alertedAt
     /\ rounds' = [rounds EXCEPT ![s] = IF alert /\ sendAlert = "thrown"
                                        THEN IdleRound(r.attempted)
                                        ELSE NextRound(r)]
     /\ scheduled' = (scheduled \/ rounds'[s].pc = "Idle")
     /\ lastPrices' = [lastPrices EXCEPT ![asset] = NoPrice]
     /\ UNCHANGED <<isRunning, published, cycles>>

\* updateAssetPrice(asset) threw; r is the invocation at the throw. The
\* counter is raised, sendAlert is awaited from the threshold on, and an
\* exception of sendAlert would leave updateAllPrices.
RoundFailed(s, r) ==
  LET asset == Assets[r.idx]
      count == Caught(failureCount[asset])
      alert == count >= ALERT_THRESHOLD
  IN /\ failureCount' = [failureCount EXCEPT ![asset] = count]
     /\ alertedAt' = IF alert THEN [alertedAt EXCEPT ![asset] = @ \cup {count}]
                     ELSE alertedAt
     /\ rounds' = [rounds EXCEPT ![s] = IF alert /\ sendAlert = "thrown"
                                        THEN IdleRound(r.attempted)
                                        ELSE NextRound(r)]
     /\ scheduled' = (scheduled \/ rounds'[s].pc = "Idle")
     /\ UNCHANGED <<isRunning, lastPrices, published, cycles>>

\* updateAssetPrice(asset) returned: lastPrices was set, the counter is reset
RoundPublished(s, r) ==
  LET asset == Assets[r.idx]
  IN /\ lastPrices' = [lastPrices EXCEPT ![asset] =
                         [price |-> r.medianPrice, sources |-> Len(r.tx.sourcePrices)]]
     /\ failureCount' = [failureCount EXCEPT ![asset] = 0]
     /\ rounds' = [rounds EXCEPT ![s] = NextRound(r)]
     /\ scheduled' = (scheduled \/ rounds'[s].pc = "Idle")
     /\ UNCHANGED <<isRunning, published, cycles, alertedAt>>

\* start(): isRunning is set and the initial updateAllPrices begins;
\* scheduleUpdates follows when it has returned
Start ==
  /\ ~isRunning
  /\ cycles = 0
  /\ isRunning' = TRUE
  /\ BeginCycle(1)
  /\ UNCHANGED <<scheduled, failureCount, lastPrices, published, alertedAt>>
  /\ UNCHANGED <<vars, fnVars, factoryVars>>

\* the every-minute cron task fires; the invocation takes the first free slot
CronTick(s) ==
  /\ scheduled
  /\ isRunning
  /\ cycles < MaxCycles
  /\ rounds[s].pc = "Idle"
  /\ \A t \in Slots : t < s => rounds[t].pc # "Idle"
  /\ BeginCycle(s)
  /\ UNCHANGED <<isRunning, scheduled, failureCount, lastPrices, published, alertedAt>>
  /\ UNCHANGED <<vars, fnVars, factoryVars>>

\* updateAssetPrice(asset) is called: it throws for an asset without oracle
\* contract, otherwise the fetches are started
BeginRound(s) ==
  /\ rounds[s].pc = "Begin"
  /\ LET r == [rounds[s] EXCEPT !.attempted = @ \cup {Asset(s)}]
     IN IF Asset(s) \notin OracleAssets
        THEN RoundFailed(s, r)
        ELSE /\ rounds' = [rounds EXCEPT ![s] = [r EXCEPT !.pc = "Fetching"]]
             /\ UNCHANGED <<isRunning, scheduled, failureCount, lastPrices,
                            published, cycles, alertedAt>>
  /\ UNCHANGED <<vars, fnVars, factoryVars>>

\* variant: four readings are required
AggregatedNeedsFour(sourcePrices) ==
  LET prices == [i \in 1..Len(sourcePrices) |-> sourcePrices[i].price]
  IN IF Len(sourcePrices) < 4
     THEN [accepted |-> FALSE, reason |-> "insufficient-sources", price |-> 0]
     ELSE [accepted |-> TRUE, reason |-> "ok", price |-> calculateMedian(prices)]

\* variant: two readings are enough
AggregatedNeedsTwo(sourcePrices) ==
  LET prices == [i \in 1..Len(sourcePrices) |-> sourcePrices[i].price]
  IN IF Len(sourcePrices) < 2
     THEN [accepted |-> FALSE, reason |-> "insufficient-sources", price |-> 0]
     ELSE [accepted |-> TRUE, reason |-> "ok", price |-> calculateMedian(prices)]

\* updateAssetPrice between the return of the fetch and the conversion to
\* wei: the source count, the median, validatePrice of the median against
\* the same prices; price is medianPrice
Aggregated(sourcePrices) ==
  LET prices == [i \in 1..Len(sourcePrices) |-> sourcePrices[i].price]
  IN IF Len(sourcePrices) < 3
     THEN [accepted |-> FALSE, reason |-> "insufficient-sources", price |-> 0]
     ELSE LET medianPrice == calculateMedian(prices)
              checked == validatePrice(medianPrice, prices)
          IN IF checked # "ok"
             THEN [accepted |-> FALSE, reason |-> checked, price |-> 0]
             ELSE [accepted |-> TRUE, reason |-> "ok", price |-> medianPrice]

\* fetchPricesFromAllSources has returned: source count, median, validation,
\* conversion to wei, and the transaction is handed to the provider
FetchDone(s, outcomes) ==
  /\ rounds[s].pc = "Fetching"
  /\ LET sourcePrices == fetchPricesFromAllSources(Asset(s), outcomes)
         aggregated == Aggregated(sourcePrices)
     IN IF ~aggregated.accepted THEN RoundFailed(s, rounds[s])
        ELSE /\ rounds' = [rounds EXCEPT ![s].pc = "Submitting",
                                         ![s].sourcePrices = sourcePrices,
                                         ![s].medianPrice = aggregated.price,
                                         ![s].tx = NodeTx(aggregated.price, sourcePrices)]
             /\ UNCHANGED <<isRunning, scheduled, failureCount, lastPrices,
                            published, cycles, alertedAt>>
  /\ UNCHANGED <<vars, fnVars, factoryVars>>

\* the provider answers the submission: the transaction is in the pool, or
\* the call threw
SubmitDone(s, accepted) ==
  /\ rounds[s].pc = "Submitting"
  /\ IF accepted
     THEN /\ rounds' = [rounds EXCEPT ![s].pc = "Pending"]
          /\ UNCHANGED <<isRunning, scheduled, failureCount, lastPrices,
                         published, cycles, alertedAt>>
     ELSE RoundFailed(s, rounds[s])
  /\ UNCHANGED <<vars, fnVars, factoryVars>>

\* variant: the transaction is kept in one place for all invocations, the
\* one sent last by any of them
SentTxShared(s) ==
  LET t == CHOOSE u \in Slots :
             /\ rounds[u].pc = "Pending"
             /\ \A v \in Slots : rounds[v].pc = "Pending" => v <= u
  IN rounds[t].tx

\* the transaction the invocation in slot s sent: built from the locals
\* priceWei, sourcePricesWei and sourceNames of its updateAssetPrice
SentTx(s) == rounds[s].tx

\* seconds from one block to the next transaction's block: 0 is the same
\* block
BlockSteps == {0, 1}

\* seconds of chain time the rounds are followed for
MaxBlockTime == 1

\* the chain includes the transaction in a block, d seconds after the
\* previous one: the asset's registry executes updatePrice
TxMined(s, active, d) ==
  /\ rounds[s].pc = "Pending"
  /\ now + d <= DeployTime + MaxBlockTime
  /\ now' = now + d
  /\ LET res == RegistryResult(active, SentTx(s))
     IN /\ rounds' = [rounds EXCEPT ![s].pc = "Mined", ![s].status = res,
                                     ![s].minedAt = now']
        /\ published' = IF res = "ok"
                        THEN [published EXCEPT ![Asset(s)] =
                                PriceData(SentTx(s).price, now', TRUE)]
                        ELSE published
  /\ UNCHANGED <<isRunning, scheduled, failureCount, lastPrices, cycles, alertedAt>>
  /\ UNCHANGED <<wards, priceData, nodes, nodeList, call, ops, lastWrite, fnVars,
                 factoryVars>>

\* tx.wait() settles: it resolves for a successful transaction and throws
\* for a reverted one
WaitDone(s) ==
  /\ rounds[s].pc = "Mined"
  /\ IF rounds[s].status = "ok"
     THEN RoundPublished(s, rounds[s])
     ELSE RoundFailed(s, rounds[s])
  /\ UNCHANGED <<vars, fnVars, factoryVars>>

NodeNext ==
  \/ Start
  \/ \E s \in Slots : CronTick(s)
  \/ \E s \in Slots : BeginRound(s)
  \/ \E s \in Slots, o \in RoundOutcomes : FetchDone(s, o)
  \/ \E s \in Slots, accepted \in BOOLEAN : SubmitDone(s, accepted)
  \/ \E s \in Slots, active \in BOOLEAN, d \in BlockSteps : TxMined(s, active, d)
  \/ \E s \in Slots : WaitDone(s)

NodeSpec == Init /\ [][NodeNext]_allVars

\* What the event loop and the timers of the code guarantee: a started
\* updateAssetPrice runs on, every fetch settles (axios timeout, at most
\* `retries` attempts), the provider answers a submission, and tx.wait()
\* settles once the transaction is in a block. Nothing in the code makes the
\* chain include a pending transaction, and no timer bounds tx.wait().
NodeFairness ==
  \A s \in Slots :
    /\ WF_allVars(BeginRound(s))
    /\ WF_allVars(\E o \in RoundOutcomes : FetchDone(s, o))
    /\ WF_allVars(\E accepted \in BOOLEAN : SubmitDone(s, accepted))
    /\ WF_allVars(WaitDone(s))

NodeFairSpec == NodeSpec /\ NodeFairness

\* ------------------------------------------------------------ shutdown
\* the process has exited: no invocation goes on and no timer fires
Exited == \A s \in Slots : rounds[s].pc = "Exited"

\* stop(): isRunning is cleared, nothing else is touched
Stop ==
  /\ isRunning
  /\ ~Exited
  /\ isRunning' = FALSE
  /\ UNCHANGED <<scheduled, failureCount, lastPrices, published, rounds, cycles,
                 alertedAt>>
  /\ UNCHANGED <<vars, fnVars, factoryVars>>

\* the SIGINT / SIGTERM handler main registers once start() has returned:
\* stop() is awaited, which takes no turn of the event loop, and
\* process.exit(0) ends the process with whatever is in progress
Signal ==
  /\ scheduled
  /\ ~Exited
  /\ isRunning' = FALSE
  /\ rounds' = [s \in Slots |-> [rounds[s] EXCEPT !.pc = "Exited"]]
  /\ UNCHANGED <<scheduled, failureCount, lastPrices, published, cycles, alertedAt>>
  /\ UNCHANGED <<vars, fnVars, factoryVars>>

ShutdownNext ==
  \/ NodeNext
  \/ Stop
  \/ Signal

ShutdownSpec == Init /\ [][ShutdownNext]_allVars

\* --------------------------------------- fetchPricesFromAllSources alone
\* the quote of each source when it answers: one value per source
Quote(sourceName) ==
  200 + 2 * (CHOOSE i \in 1..Len(Sources) : Sources[i] = sourceName)

OutcomeKinds == {"ok", "throw", "exhausted"}

OutcomesOf(kinds) ==
  [n \in SourceSet |->
     IF kinds[n] = "ok" THEN Up(Quote(n))
     ELSE IF kinds[n] = "throw" THEN Throws
     ELSE Exhausted]

\* every combination of per-source outcomes
FetchOutcomes == {OutcomesOf(kinds) : kinds \in [SourceSet -> OutcomeKinds]}

FetchInit ==
  /\ Deployed
  /\ Constructed
  /\ Created
  /\ fnArg \in {[name |-> "fetchPricesFromAllSources", asset |-> a, outcomes |-> o] :
                  a \in AssetSet, o \in FetchOutcomes}
  /\ fnRet = NoFn

\* the call returns its readings; called are the adapters it invoked
Fetch ==
  /\ fnArg.name = "fetchPricesFromAllSources"
  /\ fnRet = NoFn
  /\ fnRet' = [name |-> "fetchPricesFromAllSources",
               value |-> fetchPricesFromAllSources(fnArg.asset, fnArg.outcomes),
               called |-> AdaptersCalled(fnArg.asset)]
  /\ UNCHANGED <<fnArg, vars, nodeVars, factoryVars>>

FetchNext == Fetch

FetchSpec == FetchInit /\ [][FetchNext]_allVars

\* ------------------------------------------------------ the medians alone
MaxPrices == 4

\* prices in whole units
PriceVals == {1, 2, 5}
PriceLists == UNION {SeqsOfLen(PriceVals, n) : n \in 1..MaxPrices}

\* a whole number of units as the node's JavaScript number
JsNumber(n) == 2 * n
JsNumbers(prices) == [i \in 1..Len(prices) |-> JsNumber(prices[i])]

MedianInit ==
  /\ Deployed
  /\ Constructed
  /\ Created
  /\ fnArg \in {[name |-> "calculateMedian", prices |-> p] : p \in PriceLists}
  /\ fnRet = NoFn

\* the node's calculateMedian and the registry's _calculateMedian applied to
\* the same prices; after is the node's array after the call
Median ==
  /\ fnArg.name = "calculateMedian"
  /\ fnRet = NoFn
  /\ fnRet' = [name |-> "calculateMedian",
               node |-> calculateMedian(JsNumbers(fnArg.prices)),
               registry |-> CalculateMedian(fnArg.prices),
               after |-> pricesAfterCalculateMedian(JsNumbers(fnArg.prices))]
  /\ UNCHANGED <<fnArg, vars, nodeVars, factoryVars>>

MedianNext == Median

MedianSpec == MedianInit /\ [][MedianNext]_allVars

\* ----------------------------- the promises of fetchPricesFromAllSources
\* the promise of a callback that has not been invoked yet
Unstarted == [state |-> "unstarted", value |-> null]

\* variant: the wait ends with the first promise that is settled
SettledInPart(promises) == \E n \in SourceSet : promises[n].state = "fulfilled"

\* Promise.allSettled resolves: every promise of the array is settled (the
\* callbacks catch their errors, so none rejects)
Settled(promises) == \A n \in SourceSet : promises[n].state = "fulfilled"

PoolInit ==
  /\ Deployed
  /\ Constructed
  /\ Created
  /\ fnArg \in {[name |-> "Promise.allSettled", asset |-> a, outcomes |-> o] :
                  a \in AssetSet, o \in RoundOutcomes}
  /\ fnRet = NoFn

\* fetchPricesFromAllSources is called: map begins
Call ==
  /\ fnArg.name = "Promise.allSettled"
  /\ fnRet = NoFn
  /\ fnRet' = [name |-> "Promise.allSettled", pc |-> "mapping",
               promises |-> [n \in SourceSet |-> Unstarted], value |-> <<>>]
  /\ UNCHANGED <<fnArg, vars, nodeVars, factoryVars>>

\* map invokes the callback of the i-th source: it returns null for a
\* skipped pair, otherwise it calls getPrice and is suspended at its await.
\* map runs to its end without a turn of the event loop; after the last
\* callback the function is at await Promise.allSettled.
Invoke(i) ==
  /\ fnRet # NoFn
  /\ fnRet.name = "Promise.allSettled"
  /\ fnRet.pc = "mapping"
  /\ fnRet.promises[Sources[i]].state = "unstarted"
  /\ \A j \in 1..(i - 1) : fnRet.promises[Sources[j]].state # "unstarted"
  /\ fnRet' = [fnRet EXCEPT
                 !.promises[Sources[i]] =
                    IF Sources[i] \in skipSources(fnArg.asset)
                    THEN [state |-> "fulfilled", value |-> null]
                    ELSE [state |-> "pending", value |-> null],
                 !.pc = IF i = Len(Sources) THEN "awaiting" ELSE "mapping"]
  /\ UNCHANGED <<fnArg, vars, nodeVars, factoryVars>>

\* getPrice of source n settles, in any order among the sources: the
\* callback returns the reading, or catches the error and returns null
Settle(n) ==
  /\ fnRet # NoFn
  /\ fnRet.name = "Promise.allSettled"
  /\ fnRet.pc = "awaiting"
  /\ fnRet.promises[n].state = "pending"
  /\ fnRet' = [fnRet EXCEPT
                 !.promises[n] = [state |-> "fulfilled",
                                  value |-> SourcePromise(fnArg.asset, n, fnArg.outcomes)]]
  /\ UNCHANGED <<fnArg, vars, nodeVars, factoryVars>>

\* the await resumes and the fulfilled non-null values are returned
Return ==
  /\ fnRet # NoFn
  /\ fnRet.name = "Promise.allSettled"
  /\ fnRet.pc = "awaiting"
  /\ Settled(fnRet.promises)
  /\ LET results == [i \in 1..Len(Sources) |-> fnRet.promises[Sources[i]]]
         fulfilled == SelectSeq(results, LAMBDA r : r.state = "fulfilled" /\ r.value # null)
     IN fnRet' = [fnRet EXCEPT !.pc = "returned",
                               !.value = [i \in 1..Len(fulfilled) |-> fulfilled[i].value]]
  /\ UNCHANGED <<fnArg, vars, nodeVars, factoryVars>>

PoolNext ==
  \/ Call
  \/ \E i \in 1..Len(Sources) : Invoke(i)
  \/ \E n \in SourceSet : Settle(n)
  \/ Return

PoolSpec == PoolInit /\ [][PoolNext]_allVars

\* ------------------------------------------------- PriceSource.withRetry
\* largest value of the retries argument that is followed
MaxRetries == 3

\* what fn does at one attempt: it resolves, or rejects with an error
AttemptKinds == {"ok", "timeout", "refused"}
AttemptLists == UNION {SeqsOfLen(AttemptKinds, n) : n \in 1..MaxRetries}

\* variant: the same wait after every failed attempt
BackoffConstant(i) == 1000

\* the argument of sleep after the failed attempt of loop index i
Backoff(i) == 1000 * (i + 1)

RetryInit ==
  /\ Deployed
  /\ Constructed
  /\ Created
  /\ fnArg \in {[name |-> "withRetry", retries |-> Len(o), attempts |-> o] :
                  o \in AttemptLists}
  /\ fnRet = NoFn

\* fn() is invoked at loop index i
Attempting(i, calls, sleeps) ==
  [name |-> "withRetry", pc |-> "calling", i |-> i, calls |-> calls,
   sleeps |-> sleeps, result |-> 0, error |-> [attempt |-> 0, kind |-> "none"]]

\* withRetry is called: the loop begins with i = 0 and invokes fn
RetryCall ==
  /\ fnArg.name = "withRetry"
  /\ fnRet = NoFn
  /\ fnRet' = Attempting(0, 1, <<>>)
  /\ UNCHANGED <<fnArg, vars, nodeVars, factoryVars>>

\* the awaited fn() settles: its value is returned, or its error is caught
\* and thrown on at the last index, or sleep is called
AttemptSettles ==
  /\ fnRet # NoFn
  /\ fnRet.name = "withRetry"
  /\ fnRet.pc = "calling"
  /\ LET kind == fnArg.attempts[fnRet.i + 1]
     IN fnRet' =
          IF kind = "ok"
          THEN [fnRet EXCEPT !.pc = "returned", !.result = fnRet.i + 1]
          ELSE IF fnRet.i = fnArg.retries - 1
               THEN [fnRet EXCEPT !.pc = "thrown",
                                  !.error = [attempt |-> fnRet.i + 1, kind |-> kind]]
               ELSE [fnRet EXCEPT !.pc = "sleeping",
                                  !.sleeps = Append(@, Backoff(fnRet.i))]
  /\ UNCHANGED <<fnArg, vars, nodeVars, factoryVars>>

\* the timer of sleep fires: i++ and fn is invoked again
Wake ==
  /\ fnRet # NoFn
  /\ fnRet.name = "withRetry"
  /\ fnRet.pc = "sleeping"
  /\ fnRet' = Attempting(fnRet.i + 1, fnRet.calls + 1, fnRet.sleeps)
  /\ UNCHANGED <<fnArg, vars, nodeVars, factoryVars>>

RetryNext ==
  \/ RetryCall
  \/ AttemptSettles
  \/ Wake

RetrySpec == RetryInit /\ [][RetryNext]_allVars

\* fn is a request with a timeout, so each attempt settles, and a timer that
\* was set fires
RetryFairSpec == RetrySpec /\ WF_allVars(RetryNext)

\* ------------------------------------------------------------ healthCheck
\* the checks of healthCheck in the order it makes them: the provider, the
\* oracle contract of every asset that has one, BTC on every price source
ProviderCheck == <<[kind |-> "blockchain", of |-> "provider"]>>
OracleChecks ==
  LET withOracle == SelectSeq(Assets, LAMBDA a : a \in OracleAssets)
  IN [i \in 1..Len(withOracle) |-> [kind |-> "oracle", of |-> withOracle[i]]]
SourceChecks == [i \in 1..Len(Sources) |-> [kind |-> "source", of |-> Sources[i]]]
HealthChecks == ProviderCheck \o OracleChecks \o SourceChecks
CheckSet == {HealthChecks[i] : i \in 1..Len(HealthChecks)}

\* variant: the first failing check ends the probe's checks
AfterCheckStopAtFailure(i, failed) ==
  IF failed THEN Len(HealthChecks) + 1 ELSE i + 1

\* each check is in its own try / catch: the next one follows in any case
AfterCheck(i, failed) == i + 1

HealthInit ==
  /\ Deployed
  /\ Constructed
  /\ Created
  /\ fnArg \in {[name |-> "healthCheck", failing |-> f] : f \in SUBSET CheckSet}
  /\ fnRet = NoFn

\* healthCheck is called with an empty issues array
Probe ==
  /\ fnArg.name = "healthCheck"
  /\ fnRet = NoFn
  /\ fnRet' = [name |-> "healthCheck", pc |-> 1, checked |-> <<>>,
               issues |-> <<>>, alerts |-> <<>>, outcome |-> "running"]
  /\ UNCHANGED <<fnArg, vars, nodeVars, factoryVars>>

\* the awaited call of the next check settles: an error is caught and
\* pushed to issues
Check ==
  /\ fnRet # NoFn
  /\ fnRet.name = "healthCheck"
  /\ fnRet.outcome = "running"
  /\ fnRet.pc <= Len(HealthChecks)
  /\ LET c == HealthChecks[fnRet.pc]
         failed == c \in fnArg.failing
     IN fnRet' = [fnRet EXCEPT !.checked = Append(@, c),
                               !.issues = IF failed THEN Append(@, c) ELSE @,
                               !.pc = AfterCheck(fnRet.pc, failed)]
  /\ UNCHANGED <<fnArg, vars, nodeVars, factoryVars>>

\* after the loops: one sendAlert with the joined issues, or the log line
\* 'Health check passed'
Report ==
  /\ fnRet # NoFn
  /\ fnRet.name = "healthCheck"
  /\ fnRet.outcome = "running"
  /\ fnRet.pc > Len(HealthChecks)
  /\ fnRet' = [fnRet EXCEPT
                 !.alerts = IF Len(fnRet.issues) > 0 THEN Append(@, fnRet.issues) ELSE @,
                 !.outcome = IF Len(fnRet.issues) > 0 THEN sendAlert ELSE "returned"]
  /\ UNCHANGED <<fnArg, vars, nodeVars, factoryVars>>

HealthNext ==
  \/ Probe
  \/ Check
  \/ Report

HealthSpec == HealthInit /\ [][HealthNext]_allVars

\* ------------------------------------------------------ KUSDOracleFactory
FactoryAuthResult(caller) ==
  IF factoryWards[caller] # 1 THEN "not-authorized" ELSE "ok"

\* a reverted transaction to the factory changes nothing but its record
FactoryRevert(tx) ==
  /\ factoryCall' = tx
  /\ UNCHANGED <<factoryWards, oracles, oracleAssets, assetList>>

FactoryRely(caller, usr) ==
  LET res == FactoryAuthResult(caller)
      tx == FactoryTx("rely", caller, ZeroAsset, usr, res)
  IN /\ IF res # "ok" THEN FactoryRevert(tx)
        ELSE /\ factoryWards' = [factoryWards EXCEPT ![usr] = 1]
             /\ factoryCall' = tx
             /\ UNCHANGED <<oracles, oracleAssets, assetList>>
     /\ UNCHANGED <<vars, nodeVars, fnVars>>

FactoryDeny(caller, usr) ==
  LET res == FactoryAuthResult(caller)
      tx == FactoryTx("deny", caller, ZeroAsset, usr, res)
  IN /\ IF res # "ok" THEN FactoryRevert(tx)
        ELSE /\ factoryWards' = [factoryWards EXCEPT ![usr] = 0]
             /\ factoryCall' = tx
             /\ UNCHANGED <<oracles, oracleAssets, assetList>>
     /\ UNCHANGED <<vars, nodeVars, fnVars>>

DeployOracleResult(caller, asset) ==
  IF factoryWards[caller] # 1 THEN "not-authorized"
  ELSE IF asset = ZeroAsset THEN "invalid-asset"
  ELSE IF oracles[asset] # ZeroAddr THEN "oracle-exists"
  ELSE "ok"

\* deployOracle: the new contract gets the next address the factory creates
DeployOracle(caller, asset) ==
  LET res == DeployOracleResult(caller, asset)
      oracle == CreatedOracles[Len(assetList) + 1]
  IN /\ IF res # "ok"
        THEN FactoryRevert(FactoryTx("deployOracle", caller, asset, ZeroAddr, res))
        ELSE /\ oracles' = [oracles EXCEPT ![asset] = oracle]
             /\ oracleAssets' = [oracleAssets EXCEPT ![oracle] = asset]
             /\ assetList' = Append(assetList, asset)
             /\ factoryCall' = FactoryTx("deployOracle", caller, asset, oracle, res)
             /\ UNCHANGED factoryWards
     /\ UNCHANGED <<vars, nodeVars, fnVars>>

UpdateOracleResult(caller, asset, newOracle) ==
  IF factoryWards[caller] # 1 THEN "not-authorized"
  ELSE IF asset = ZeroAsset THEN "invalid-asset"
  ELSE IF newOracle = ZeroAddr THEN "invalid-oracle"
  ELSE IF oracles[asset] = ZeroAddr THEN "oracle-not-exists"
  ELSE "ok"

\* updateOracle: the three assignments in their order
UpdateOracle(caller, asset, newOracle) ==
  LET res == UpdateOracleResult(caller, asset, newOracle)
      tx == FactoryTx("updateOracle", caller, asset, newOracle, res)
      oldOracle == oracles[asset]
  IN /\ IF res # "ok" THEN FactoryRevert(tx)
        ELSE /\ oracles' = [oracles EXCEPT ![asset] = newOracle]
             /\ oracleAssets' = [[oracleAssets EXCEPT ![oldOracle] = ZeroAsset]
                                   EXCEPT ![newOracle] = asset]
             /\ factoryCall' = tx
             /\ UNCHANGED <<factoryWards, assetList>>
     /\ UNCHANGED <<vars, nodeVars, fnVars>>

FactoryNext ==
  \/ \E c \in FactoryCallers, u \in FactoryCallers : FactoryRely(c, u)
  \/ \E c \in FactoryCallers, u \in FactoryCallers : FactoryDeny(c, u)
  \/ \E c \in FactoryCallers, a \in FactoryAssets \cup {ZeroAsset} : DeployOracle(c, a)
  \/ \E c \in FactoryCallers, a \in FactoryAssets \cup {ZeroAsset},
        o \in OracleAddrs \cup {ZeroAddr} : UpdateOracle(c, a, o)

FactorySpec == Init /\ [][FactoryNext]_allVars

\* ------------------------------------------- the aggregation step alone
\* quotes of the sources, as JavaScript numbers: 216 is 8% above 200, 260 is
\* 30% above
QuoteVals == {200, 216, 260}
QuoteLists == UNION {SeqsOfLen(QuoteVals, n) : n \in 2..MaxPrices}

\* the readings the fetch returns for a list of quotes, source by source
ReadingsOf(quotes) ==
  [i \in 1..Len(quotes) |-> [source |-> Sources[i], price |-> quotes[i]]]

AggregateInit ==
  /\ Deployed
  /\ Constructed
  /\ Created
  /\ fnArg \in {[name |-> "updateAssetPrice", sourcePrices |-> ReadingsOf(q)] :
                  q \in QuoteLists}
  /\ fnRet = NoFn

\* updateAssetPrice goes from the readings to the transaction it submits,
\* or throws
Aggregate ==
  /\ fnArg.name = "updateAssetPrice"
  /\ fnRet = NoFn
  /\ LET aggregated == Aggregated(fnArg.sourcePrices)
     IN fnRet' = [name |-> "updateAssetPrice",
                  accepted |-> aggregated.accepted,
                  reason |-> aggregated.reason,
                  medianPrice |-> aggregated.price,
                  tx |-> IF aggregated.accepted
                         THEN NodeTx(aggregated.price, fnArg.sourcePrices)
                         ELSE NoTx]
  /\ UNCHANGED <<fnArg, vars, nodeVars, factoryVars>>

AggregateNext == Aggregate

AggregateSpec == AggregateInit /\ [][AggregateNext]_allVars

\* --------------------------------------------- the adapters' fixed prices
\* the sources whose getPrice returns 1.0 for the symbol before any request
FixedPriceSourcesWithoutKucoin(symbol) ==
  IF symbol = "USDT" THEN {"binance", "kraken", "okx"}
  ELSE IF symbol = "USDC" THEN {"kraken"}
  ELSE {}

FixedPriceSources(symbol) ==
  IF symbol = "USDT" THEN {"binance", "kucoin", "kraken", "okx"}
  ELSE IF symbol = "USDC" THEN {"kraken"}
  ELSE {}

\* source.getPrice(symbol) of the named adapter, response being what its
\* request would end in: BinanceAPI and KucoinAPI throw for DAI, the fixed
\* price is returned without a request, every other call goes through
\* withRetry
getPrice(sourceName, symbol, response) ==
  IF symbol = "DAI" /\ sourceName \in {"binance", "kucoin"} THEN Throws
  ELSE IF sourceName \in FixedPriceSources(symbol) THEN Up(JsNumber(1))
  ELSE response

\* what a request answers with: 1 is 0.5, 2 is 1.0 and 4 is 2.0
ResponseSet == {Up(1), Up(2), Up(4), Throws}

StableAssets == {"USDT", "USDC"}

StableInit ==
  /\ Deployed
  /\ Constructed
  /\ Created
  /\ fnArg \in {[name |-> "updateAssetPrice", asset |-> a, responses |-> r] :
                  a \in StableAssets, r \in [SourceSet -> ResponseSet]}
  /\ fnRet = NoFn

\* updateAssetPrice from the fetch to the median: the readings of the
\* sources that answered, and the median when there are enough of them
Gather ==
  /\ fnArg.name = "updateAssetPrice"
  /\ fnRet = NoFn
  /\ LET outcomes == [n \in SourceSet |-> getPrice(n, fnArg.asset, fnArg.responses[n])]
         sourcePrices == fetchPricesFromAllSources(fnArg.asset, outcomes)
         prices == [i \in 1..Len(sourcePrices) |-> sourcePrices[i].price]
     IN fnRet' = [name |-> "updateAssetPrice",
                  sourcePrices |-> sourcePrices,
                  accepted |-> Len(sourcePrices) >= 3,
                  medianPrice |-> IF Len(sourcePrices) >= 3
                                  THEN calculateMedian(prices) ELSE 0]
  /\ UNCHANGED <<fnArg, vars, nodeVars, factoryVars>>

StableNext == Gather

StableSpec == StableInit /\ [][StableNext]_allVars

\* ------------------------------------------- the registry's check alone
\* candidates around 10% below and above 1009, and source prices whose
\* median is 1008, 1008.5, 1009, 1009.5 or 1010
ValidateCandidates == {907, 908, 909, 1109, 1110, 1111}
ValidateSourceVals == {1008, 1009, 1010}
ValidateSourceLists ==
  UNION {SeqsOfLen(ValidateSourceVals, n) : n \in MIN_SOURCES..MaxPrices}

ValidateInit ==
  /\ Deployed
  /\ Constructed
  /\ Created
  /\ fnArg \in {[name |-> "_validatePrice", newPrice |-> c, sourcePrices |-> sp] :
                  c \in ValidateCandidates, sp \in ValidateSourceLists}
  /\ fnRet = NoFn

\* _validatePrice is applied to the candidate and the source prices
Validate ==
  /\ fnArg.name = "_validatePrice"
  /\ fnRet = NoFn
  /\ fnRet' = [name |-> "_validatePrice",
               result |-> ValidatePrice(fnArg.newPrice, fnArg.sourcePrices)]
  /\ UNCHANGED <<fnArg, vars, nodeVars, factoryVars>>

ValidateNext == Validate

ValidateSpec == ValidateInit /\ [][ValidateNext]_allVars

\* ===================================================================
\* Properties
\* ===================================================================
Range(s) == {s[i] : i \in 1..Len(s)}

\* k-th smallest element of s, by counting (no sorting)
KthSmallest(s, k) ==
  CHOOSE v \in Range(s) :
    /\ Cardinality({i \in 1..Len(s) : s[i] < v}) < k
    /\ Cardinality({i \in 1..Len(s) : s[i] <= v}) >= k

\* twice the exact median of a non-empty list (twice, to stay in the integers)
TwiceMedian(s) ==
  IF Len(s) % 2 = 1
  THEN 2 * KthSmallest(s, (Len(s) + 1) \div 2)
  ELSE KthSmallest(s, Len(s) \div 2) + KthSmallest(s, Len(s) \div 2 + 1)

Abs(x) == IF x < 0 THEN -x ELSE x

\* |p - median| / median * 10000 <= MAX_DEVIATION in exact arithmetic
\* (both sides multiplied by 2 * median)
ExactlyWithinDeviation(p, s) ==
  Abs(2 * p - TwiceMedian(s)) * 10000 <= MAX_DEVIATION * TwiceMedian(s)

\* the median as the registry's integers hold it, and the deviation in
\* whole basis points
WholeMedian(s) == TwiceMedian(s) \div 2
WholeBasisPoints(p, s) == (Abs(p - WholeMedian(s)) * 10000) \div WholeMedian(s)

IsUpdate(tx) == tx.op = "updatePrice"
Accepted(tx) == tx.result = "ok"

\* C1: updatePrice by a caller whose node record is not active reverts with
\* node-not-active (the registry's publish-time not-authorized error) whatever
\* its arguments, and leaves the published price and all node records as
\* they were.
C1_InactiveCallerRejected ==
  [][(IsUpdate(call') /\ ~nodes[call'.caller].active)
       => /\ call'.result = "node-not-active"
          /\ priceData' = priceData
          /\ nodes' = nodes]_vars

\* a deactivated node is rejected although its candidate and sources are valid
C1_Witness ==
  /\ IsUpdate(call)
  /\ call.result = "node-not-active"
  /\ nodes[call.caller].nodeAddress = call.caller
  /\ ~nodes[call.caller].active
  /\ call.amount > 0
  /\ Len(call.sourcePrices) = Len(call.sources)
  /\ ValidatePrice(call.amount, call.sourcePrices) = "true"

\* C2 as stated: an accepted updatePrice carried at least MIN_SOURCES source
\* prices and a candidate within 10% of their median, and a well-formed call
\* of an active node whose candidate is further than 10% from the (non-zero)
\* median is rejected with price-validation-failed.
C2_AsStated ==
  IsUpdate(call) =>
    /\ Accepted(call) =>
         /\ Len(call.sourcePrices) >= MIN_SOURCES
         /\ ExactlyWithinDeviation(call.amount, call.sourcePrices)
    /\ ( /\ nodes[call.caller].active
         /\ call.amount > 0
         /\ Len(call.sourcePrices) >= MIN_SOURCES
         /\ Len(call.sourcePrices) = Len(call.sources)
         /\ TwiceMedian(call.sourcePrices) > 0
         /\ ~ExactlyWithinDeviation(call.amount, call.sourcePrices) )
       => call.result = "price-validation-failed"

\* C2 amended: an accepted updatePrice carried at least MIN_SOURCES source
\* prices, a non-zero median, and a candidate whose deviation from the median
\* in whole basis points (rounded down) is at most MAX_DEVIATION; a
\* well-formed call of an active node whose whole-basis-point deviation
\* exceeds MAX_DEVIATION is rejected with price-validation-failed, and one
\* whose source median is zero reverts with an arithmetic panic.
C2_AcceptedWithinWholeBasisPoints ==
  IsUpdate(call) =>
    /\ Accepted(call) =>
         /\ Len(call.sourcePrices) >= MIN_SOURCES
         /\ WholeMedian(call.sourcePrices) > 0
         /\ WholeBasisPoints(call.amount, call.sourcePrices) <= MAX_DEVIATION
    /\ ( /\ nodes[call.caller].active
         /\ call.amount > 0
         /\ Len(call.sourcePrices) >= MIN_SOURCES
         /\ Len(call.sourcePrices) = Len(call.sources) )
       => IF WholeMedian(call.sourcePrices) = 0
          THEN call.result = "panic"
          ELSE (WholeBasisPoints(call.amount, call.sourcePrices) > MAX_DEVIATION)
                 <=> (call.result = "price-validation-failed")

\* a candidate far from a computable median is rejected on validation
C2_Witness ==
  /\ IsUpdate(call)
  /\ call.result = "price-validation-failed"
  /\ Len(call.sourcePrices) >= MIN_SOURCES
  /\ WholeMedian(call.sourcePrices) > 0
  /\ WholeBasisPoints(call.amount, call.sourcePrices) > MAX_DEVIATION

\* C3: a successful updatePrice by node n with candidate p at time t sets
\* priceData to (p, t, true) and n's lastUpdate to t and changes nothing
\* else: no other node record, none of n's other fields, not nodeList, not
\* wards.
C3_UpdateWritesExactly ==
  [][(IsUpdate(call') /\ Accepted(call'))
       => /\ priceData' = [price |-> call'.amount, timestamp |-> now, valid |-> TRUE]
          /\ nodes'[call'.caller].lastUpdate = now
          /\ \A a \in Addr \ {call'.caller} : nodes'[a] = nodes[a]
          /\ nodes'[call'.caller].active = nodes[call'.caller].active
          /\ nodes'[call'.caller].stake = nodes[call'.caller].stake
          /\ nodes'[call'.caller].reputation = nodes[call'.caller].reputation
          /\ nodes'[call'.caller].nodeAddress = nodes[call'.caller].nodeAddress
          /\ nodeList' = nodeList
          /\ wards' = wards
          /\ now' = now]_vars

\* a second publish, later than the first, while another node is registered
C3_Witness ==
  /\ IsUpdate(call)
  /\ Accepted(call)
  /\ priceData = [price |-> call.amount, timestamp |-> now, valid |-> TRUE]
  /\ nodes[call.caller].lastUpdate = now
  /\ now > DeployTime
  /\ \E a \in Addr \ {call.caller} : nodes[a].active

\* C4 as stated: for an active publisher, fewer than MIN_SOURCES source
\* prices give insufficient-sources and a name list of another length gives
\* mismatched-arrays, the checks being made in the order authorization,
\* source count, array lengths, deviation.
C4_AsStated ==
  (IsUpdate(call) /\ nodes[call.caller].active) =>
    /\ Len(call.sourcePrices) < MIN_SOURCES => call.result = "insufficient-sources"
    /\ ( /\ Len(call.sourcePrices) >= MIN_SOURCES
         /\ Len(call.sourcePrices) # Len(call.sources) )
       => call.result = "mismatched-arrays"

\* C4 amended: the checks are made in the order authorization, positive
\* candidate (invalid-price), source count, array lengths, deviation; the
\* error is that of the first failing check (the deviation check failing
\* with price-validation-failed, or with an arithmetic panic when the source
\* median is zero), and a failing call changes no state.
C4_FirstFailingCheck ==
  [][IsUpdate(call') =>
       /\ ~nodes[call'.caller].active => call'.result = "node-not-active"
       /\ nodes[call'.caller].active =>
            /\ call'.amount = 0 => call'.result = "invalid-price"
            /\ (call'.amount > 0 /\ Len(call'.sourcePrices) < MIN_SOURCES)
                 => call'.result = "insufficient-sources"
            /\ ( /\ call'.amount > 0
                 /\ Len(call'.sourcePrices) >= MIN_SOURCES
                 /\ Len(call'.sourcePrices) # Len(call'.sources) )
                 => call'.result = "mismatched-arrays"
            /\ ( /\ call'.amount > 0
                 /\ Len(call'.sourcePrices) >= MIN_SOURCES
                 /\ Len(call'.sourcePrices) = Len(call'.sources) )
                 => call'.result \in {"ok", "price-validation-failed", "panic"}
       /\ ~Accepted(call') =>
            /\ priceData' = priceData
            /\ nodes' = nodes
            /\ nodeList' = nodeList
            /\ wards' = wards]_vars

\* an active node is told mismatched-arrays for three prices and two names
C4_Witness ==
  /\ IsUpdate(call)
  /\ nodes[call.caller].active
  /\ call.amount > 0
  /\ Len(call.sourcePrices) >= MIN_SOURCES
  /\ Len(call.sourcePrices) # Len(call.sources)
  /\ ValidatePrice(call.amount, call.sourcePrices) = "false"
  /\ call.result = "mismatched-arrays"
\* C5: isFresh is false before the first write; after a write at time t it
\* is true exactly while now - t <= STALENESS_THRESHOLD, in particular in
\* the state right after a successful updatePrice, and it turns false by
\* the passing of time alone.
C5_FreshForThreshold ==
  /\ lastWrite = -1 => ~IsFresh
  /\ lastWrite >= 0 => (IsFresh <=> now - lastWrite <= STALENESS_THRESHOLD)
  /\ (IsUpdate(call) /\ Accepted(call)) => IsFresh

\* a published price that nobody invalidated is no longer fresh
C5_Witness ==
  /\ lastWrite >= 0
  /\ now - lastWrite > STALENESS_THRESHOLD
  /\ priceData.valid
  /\ \E a \in Addr : nodes[a].lastUpdate = lastWrite
  /\ ~IsFresh

WithinThresholdOfLastWrite ==
  lastWrite >= 0 /\ now - lastWrite <= STALENESS_THRESHOLD

\* C6 as stated: whenever peek or getPriceData reports valid = true, the
\* last accepted write is at most STALENESS_THRESHOLD seconds old.
C6_AsStated ==
  /\ Peek.valid => WithinThresholdOfLastWrite
  /\ GetPriceData[3] => WithinThresholdOfLastWrite

\* C6 amended: whenever peek reports valid = true the last accepted write
\* is at most STALENESS_THRESHOLD seconds old, and before the first write
\* both peek and getPriceData report valid = false.
C6_PeekValidOnlyWhenFresh ==
  /\ Peek.valid => WithinThresholdOfLastWrite
  /\ lastWrite = -1 => (~Peek.valid /\ ~GetPriceData[3])

\* an old price whose stored flag is still set is reported invalid by peek
C6_Witness ==
  /\ lastWrite >= 0
  /\ now - lastWrite > STALENESS_THRESHOLD
  /\ GetPriceData[3]
  /\ ~Peek.valid

\* C7: invalidatePrice by a ward succeeds in any state, sets valid to false
\* and leaves price, timestamp, node records, node list and wards as they
\* were, so that getPriceData then returns (old price, old timestamp, false).
C7_InvalidateKeepsHistory ==
  [][(call'.op = "invalidatePrice" /\ wards[call'.caller] = 1)
       => /\ Accepted(call')
          /\ GetPriceData' = <<priceData.price, priceData.timestamp, FALSE>>
          /\ nodes' = nodes
          /\ nodeList' = nodeList
          /\ wards' = wards]_vars

\* a valid published price has just been invalidated
C7_Witness ==
  /\ call.op = "invalidatePrice"
  /\ Accepted(call)
  /\ priceData.price > 0
  /\ priceData.timestamp = lastWrite
  /\ lastWrite > 0
  /\ ~priceData.valid

\* C8: registerNode for an identity that is active fails, whatever the
\* stake, and leaves its record, the other records, the node list and the
\* published price as they were.
C8_ActiveRegistrationRejected ==
  [][(call'.op = "registerNode" /\ call'.usr \in Addr /\ nodes[call'.usr].active)
       => /\ ~Accepted(call')
          /\ nodes' = nodes
          /\ nodeList' = nodeList
          /\ priceData' = priceData
          /\ wards' = wards]_vars

\* a ward re-registers, with another stake, an active node that has published
C8_Witness ==
  /\ call.op = "registerNode"
  /\ call.result = "node-already-active"
  /\ nodes[call.usr].active
  /\ nodes[call.usr].stake # call.amount
  /\ nodes[call.usr].lastUpdate > 0

\* C9: deactivateNode by a ward on an active identity succeeds and changes
\* only that identity's active flag; on an identity that is not active it
\* fails with node-not-active and changes nothing.
C9_DeactivateOnlyClearsActive ==
  [][(call'.op = "deactivateNode" /\ wards[call'.caller] = 1)
       => /\ nodeList' = nodeList
          /\ priceData' = priceData
          /\ wards' = wards
          /\ IF nodes[call'.usr].active
             THEN /\ Accepted(call')
                  /\ nodes' = [nodes EXCEPT ![call'.usr].active = FALSE]
             ELSE /\ call'.result = "node-not-active"
                  /\ nodes' = nodes]_vars

\* a node that has published has just been deactivated
C9_Witness ==
  /\ call.op = "deactivateNode"
  /\ Accepted(call)
  /\ ~nodes[call.usr].active
  /\ nodes[call.usr].nodeAddress = call.usr
  /\ nodes[call.usr].stake > 0
  /\ nodes[call.usr].reputation = InitialReputation
  /\ nodes[call.usr].lastUpdate > 0
  /\ \E i \in 1..Len(nodeList) : nodeList[i] = call.usr

Registered(a) == nodes[a].nodeAddress = a

\* C10: once registered, an identity's record stays; and once it has
\* published and been deactivated, its lastUpdate keeps its value under
\* every later operation, a later registerNode of the same identity included
\* (a deactivated identity cannot publish).
C10_HistoryRetained ==
  [][\A a \in Addr :
       /\ Registered(a) => Registered(a)'
       /\ (Registered(a) /\ ~nodes[a].active /\ nodes[a].lastUpdate > 0)
            => nodes'[a].lastUpdate = nodes[a].lastUpdate]_vars

AuthGated ==
  {"rely", "deny", "registerNode", "deactivateNode", "emergencyUpdatePrice",
   "invalidatePrice"}

\* C11: registerNode, deactivateNode, emergencyUpdatePrice, invalidatePrice,
\* rely and deny called by an identity that is not a ward fail with
\* not-authorized, also when the caller is an active node, and the failed
\* call leaves wards, node records, node list and published price as they
\* were.
C11_NonWardRejected ==
  [][(call'.op \in AuthGated /\ wards[call'.caller] # 1)
       => /\ call'.result = "not-authorized"
          /\ wards' = wards
          /\ nodes' = nodes
          /\ nodeList' = nodeList
          /\ priceData' = priceData]_vars

\* an active node that is not a ward is refused an emergency write of a
\* positive price
C11_Witness ==
  /\ call.op = "emergencyUpdatePrice"
  /\ call.amount > 0
  /\ wards[call.caller] = 0
  /\ nodes[call.caller].active
  /\ call.result = "not-authorized"

\* C12: emergencyUpdatePrice(p) by a ward succeeds exactly when p > 0, with
\* no source list and no deviation check, whether or not the ward is a
\* registered node and whatever was published before; on success priceData
\* is (p, now, true) and no node record changes; p = 0 fails with
\* invalid-price and changes nothing.
C12_EmergencyWrite ==
  [][(call'.op = "emergencyUpdatePrice" /\ wards[call'.caller] = 1)
       => /\ Accepted(call') <=> call'.amount > 0
          /\ Accepted(call') =>
               priceData' = [price |-> call'.amount, timestamp |-> now, valid |-> TRUE]
          /\ ~Accepted(call') =>
               (call'.result = "invalid-price" /\ priceData' = priceData)
          /\ nodes' = nodes
          /\ nodeList' = nodeList
          /\ wards' = wards]_vars

\* a ward that never was a node overrides, far from it, a price that a node
\* published earlier
C12_Witness ==
  /\ call.op = "emergencyUpdatePrice"
  /\ Accepted(call)
  /\ nodes[call.caller] = EmptyNode
  /\ priceData = [price |-> call.amount, timestamp |-> now, valid |-> TRUE]
  /\ \E a \in Addr : nodes[a].lastUpdate > 0 /\ nodes[a].lastUpdate < now
  /\ call.amount > 1110

\* C13: getActiveNodeCount is the number of distinct identities whose
\* active flag is set, after any sequence of registrations and
\* deactivations, re-registration of a deactivated identity included.
C13_CountsDistinctActive ==
  GetActiveNodeCount = Cardinality({a \in Addr : nodes[a].active})

\* C14: wards are the factory and the deployer at construction, and
\* afterwards the ward set changes only by a successful rely or deny whose
\* caller is a ward at the time of the call, and only at the identity named
\* in the call.
C14_WardsChangeOnlyByWards ==
  /\ wards = [a \in Addr |-> IF a \in {Factory, Owner} THEN 1 ELSE 0]
  /\ [][wards' # wards
         => /\ call'.op \in {"rely", "deny"}
            /\ Accepted(call')
            /\ wards[call'.caller] = 1
            /\ \A a \in Addr \ {call'.usr} : wards'[a] = wards[a]
            /\ wards'[call'.usr] = IF call'.op = "rely" THEN 1 ELSE 0]_vars

\* a ward made by rely has removed the deployer
C14_Witness ==
  /\ call.op = "deny"
  /\ Accepted(call)
  /\ call.caller = Node1
  /\ call.usr = Owner
  /\ wards[Owner] = 0
  /\ wards[Node1] = 1

\* slot s finishes the round of Asset(s) in this step
RoundEnds(s) ==
  /\ rounds[s].pc # "Idle"
  /\ rounds'[s] # rounds[s]
  /\ rounds'[s].pc \in {"Begin", "Idle"}

\* the round that slot s is about to finish had its transaction applied
WasPublished(s) == rounds[s].pc = "Mined" /\ rounds[s].status = "ok"

\* C15: a round that ends after its publication was applied sets the
\* asset's failure counter to 0, a round that ends in any other way (no
\* oracle, too few sources, validation, failed or reverted write) raises it
\* by exactly 1, sending an alert included, and nothing else changes a
\* counter: it is the number of consecutive failed rounds since the last
\* accepted publication.
C15_CounterCountsConsecutiveFailures ==
  [][/\ \A s \in Slots :
          RoundEnds(s) =>
            failureCount'[Asset(s)] =
              IF WasPublished(s) THEN 0 ELSE failureCount[Asset(s)] + 1
     /\ \A a \in AssetSet :
          failureCount'[a] # failureCount[a]
            => \E s \in Slots : RoundEnds(s) /\ Asset(s) = a]_allVars

\* DAI was published after an alert for its fifth failure; BTC has failed
\* six times, one failure after its alert
C15_Witness ==
  /\ failureCount["DAI"] = 0
  /\ ALERT_THRESHOLD \in alertedAt["DAI"]
  /\ lastPrices["DAI"] # NoPrice
  /\ failureCount["BTC"] = ALERT_THRESHOLD + 1
  /\ ALERT_THRESHOLD \in alertedAt["BTC"]

\* C16: sendAlert is called when an asset's counter reaches 5, not again
\* on every later failed round of the same run of failures (at most at
\* the multiples of 5), and never with a counter below 5.
C16_AlertOncePerCrossing ==
  \A a \in AssetSet :
    /\ \A n \in alertedAt[a] : n >= ALERT_THRESHOLD /\ n % ALERT_THRESHOLD = 0
    /\ failureCount[a] >= ALERT_THRESHOLD => ALERT_THRESHOLD \in alertedAt[a]

\* C17: a step of a round of one asset changes neither the failure counter
\* nor the last-known price nor the published price nor the alerts of any
\* other asset, and an invocation of updateAllPrices ends only by returning
\* after updateAssetPrice was called for every tracked asset.
C17_FailureStaysWithItsAsset ==
  [][\A s \in Slots :
       (rounds'[s] # rounds[s] /\ rounds[s].pc # "Idle") =>
         /\ \A b \in AssetSet \ {Asset(s)} :
              /\ failureCount'[b] = failureCount[b]
              /\ lastPrices'[b] = lastPrices[b]
              /\ published'[b] = published[b]
              /\ alertedAt'[b] = alertedAt[b]
         /\ rounds'[s].pc = "Idle" => rounds'[s].attempted = AssetSet
         /\ rounds'[s].pc # "Idle" =>
              /\ rounds'[s].idx \in {rounds[s].idx, rounds[s].idx + 1}
              /\ rounds[s].attempted \subseteq rounds'[s].attempted]_allVars

\* the initial invocation has returned: BTC's round failed, DAI's round
\* after it published, and USDC was attempted too
C17_Witness ==
  /\ cycles = 1
  /\ rounds[1] = IdleRound(AssetSet)
  /\ failureCount["BTC"] = 1
  /\ lastPrices["BTC"] = NoPrice
  /\ published["BTC"] = Unpublished
  /\ failureCount["DAI"] = 0
  /\ lastPrices["DAI"].price > 0
  /\ published["DAI"].price = parseEther(lastPrices["DAI"].price)
  /\ failureCount["USDC"] = 1

\* C19: every invocation of updateAllPrices that has begun returns: each
\* of its rounds, the publish step included, comes to an end.
C19_CycleTerminates ==
  \A s \in Slots : (rounds[s].pc # "Idle") ~> (rounds[s].pc = "Idle")

Excluded(asset, sourceName) ==
  asset = "DAI" /\ sourceName \in {"binance", "kucoin"}

\* position of a source in the configured order
SourceIndex(sourceName) == CHOOSE i \in 1..Len(Sources) : Sources[i] = sourceName

\* C18: for every combination of per-source outcomes the call returns; its
\* result holds one reading, with the source's price, for every source that
\* is not excluded for the asset and whose fetch succeeded, in the order of
\* the configured sources, and none for a failed or an excluded source; the
\* adapters of the excluded pairs (DAI on binance and on kucoin) are not
\* called.
C18_FetchKeepsSuccessfulReadings ==
  fnRet # NoFn =>
    LET asset == fnArg.asset
        outcomes == fnArg.outcomes
        value == fnRet.value
    IN /\ \A i \in 1..Len(value) :
            /\ value[i].source \in SourceSet
            /\ ~Excluded(asset, value[i].source)
            /\ outcomes[value[i].source].kind = "ok"
            /\ value[i].price = outcomes[value[i].source].price
       /\ \A n \in SourceSet :
            (~Excluded(asset, n) /\ outcomes[n].kind = "ok")
              => Cardinality({i \in 1..Len(value) : value[i].source = n}) = 1
       /\ \A i \in 1..Len(value), j \in 1..Len(value) :
            i < j => SourceIndex(value[i].source) < SourceIndex(value[j].source)
       /\ fnRet.called = {n \in SourceSet : ~Excluded(asset, n)}

\* DAI: binance would answer and kucoin would fail after its retries, but
\* neither is called; okx throws, the four other sources answer
C18_Witness ==
  /\ fnRet # NoFn
  /\ fnArg.asset = "DAI"
  /\ fnArg.outcomes["binance"].kind = "ok"
  /\ fnArg.outcomes["kucoin"].kind = "exhausted"
  /\ fnArg.outcomes["okx"].kind = "throw"
  /\ \A n \in SourceSet \ {"binance", "kucoin", "okx"} : fnArg.outcomes[n].kind = "ok"
  /\ Len(fnRet.value) = 4
  /\ fnRet.value[1].source = "geckoterminal"
  /\ fnRet.value[4].source = "kraken"
  /\ fnRet.called = SourceSet \ {"binance", "kucoin"}

\* the orderings of a list
Orderings(p) ==
  {[i \in 1..Len(p) |-> p[f[i]]] : f \in Permutations(1..Len(p))}

\* C20 as stated: for a non-empty list the node's and the registry's median
\* both equal the reference median (middle element, or the arithmetic mean
\* of the two middle elements), whatever the order of the list, and the
\* list is not modified.
C20_AsStated ==
  fnRet # NoFn =>
    /\ fnRet.node = TwiceMedian(fnArg.prices)
    /\ 2 * fnRet.registry = TwiceMedian(fnArg.prices)
    /\ \A q \in Orderings(fnArg.prices) :
         /\ calculateMedian(JsNumbers(q)) = TwiceMedian(fnArg.prices)
         /\ 2 * CalculateMedian(q) = TwiceMedian(fnArg.prices)
    /\ fnRet.after = JsNumbers(fnArg.prices)

\* C20 amended: the node's median equals the reference median; the
\* registry's equals it for an odd count and is the mean of the two middle
\* elements rounded down to a whole number for an even count; neither
\* depends on the order of the list, and the list is not modified.
C20_MedianUpToWholeNumbers ==
  fnRet # NoFn =>
    /\ fnRet.node = TwiceMedian(fnArg.prices)
    /\ fnRet.registry = TwiceMedian(fnArg.prices) \div 2
    /\ Len(fnArg.prices) % 2 = 1 => 2 * fnRet.registry = TwiceMedian(fnArg.prices)
    /\ \A q \in Orderings(fnArg.prices) :
         /\ calculateMedian(JsNumbers(q)) = fnRet.node
         /\ CalculateMedian(q) = fnRet.registry
    /\ fnRet.after = JsNumbers(fnArg.prices)

\* an unsorted list of four whose middle elements are 2 and 5: the node
\* has 3.5, the registry 3
C20_Witness ==
  /\ fnRet # NoFn
  /\ fnArg.prices = <<5, 1, 5, 2>>
  /\ fnRet.node = 7
  /\ fnRet.registry = 3

\* the prices of a list of readings
PricesOf(sourcePrices) == [i \in 1..Len(sourcePrices) |-> sourcePrices[i].price]

\* every price of the list is within 10% of the list's median
AllWithinTenPercent(prices) ==
  \A i \in 1..Len(prices) :
    Abs(2 * prices[i] - TwiceMedian(prices)) * 10 <= TwiceMedian(prices)

\* C21: at least 3 positive readings that are all within 10% of their
\* median are accepted by the node's aggregation (validatePrice does not
\* throw), and the candidate is the median of exactly those readings.
C21_ConsistentReadingsAccepted ==
  fnRet # NoFn =>
    LET prices == PricesOf(fnArg.sourcePrices)
    IN ( /\ Len(prices) >= 3
         /\ \A i \in 1..Len(prices) : prices[i] > 0
         /\ AllWithinTenPercent(prices) )
       => /\ fnRet.accepted
          /\ 2 * fnRet.medianPrice = TwiceMedian(prices)
          /\ fnRet.tx.price = parseEther(fnRet.medianPrice)
          /\ Len(fnRet.tx.sourcePrices) = Len(prices)

\* four readings, two at 200 and two 8% above: the candidate is their mean
C21_Witness ==
  /\ fnRet # NoFn
  /\ PricesOf(fnArg.sourcePrices) = <<216, 200, 200, 216>>
  /\ fnRet.accepted
  /\ fnRet.medianPrice = 208

\* the median of the readings a round fetched, as a JavaScript number
MedianOfRound(r) == TwiceMedian(PricesOf(r.sourcePrices)) \div 2

\* the chain applies the transaction of the invocation in slot s
Applies(s) == rounds[s].pc = "Pending" /\ rounds'[s].pc = "Mined"

\* the round of the invocation in slot s completes after a successful write
Completes(s) ==
  rounds[s].pc = "Mined" /\ rounds[s].status = "ok" /\ rounds'[s] # rounds[s]

HoldsReadings(r) == r.pc \in {"Submitting", "Pending", "Mined"}

\* the readings some outcome of the sources gives for an asset
Fetchable(asset) ==
  {fetchPricesFromAllSources(asset, o) : o \in RoundOutcomes}

\* C23: the candidate and the source prices a round submits are computed
\* from the readings that round fetched and from nothing else, also while
\* another round of the same asset is in progress: the readings are those of
\* one fetch for the round's asset, the transaction is built from them, no
\* step of another invocation changes them, and the registry receives them.
C23_RoundUsesOwnReadings ==
  [][\A s \in Slots :
       /\ (rounds[s].pc = "Fetching" /\ rounds'[s].pc = "Submitting")
            => /\ rounds'[s].sourcePrices \in Fetchable(Asset(s))
               /\ rounds'[s].tx.price = parseEther(MedianOfRound(rounds'[s]))
               /\ rounds'[s].tx.sourcePrices =
                    [i \in 1..Len(rounds'[s].sourcePrices) |->
                       parseEther(rounds'[s].sourcePrices[i].price)]
               /\ \A t \in Slots \ {s} : rounds'[t] = rounds[t]
       /\ (HoldsReadings(rounds[s]) /\ HoldsReadings(rounds'[s]))
            => /\ rounds'[s].sourcePrices = rounds[s].sourcePrices
               /\ rounds'[s].medianPrice = rounds[s].medianPrice
               /\ rounds'[s].tx = rounds[s].tx
       /\ (Applies(s) /\ rounds'[s].status = "ok")
            => published'[Asset(s)].price = parseEther(MedianOfRound(rounds[s]))]_allVars

\* two rounds of BTC overlap with different readings: the first one's
\* transaction is in a block, with its own median at the registry, while the
\* second one's is pending
C23_Witness ==
  /\ rounds[1].pc = "Mined" /\ rounds[1].status = "ok"
  /\ rounds[2].pc = "Pending"
  /\ Asset(1) = "BTC" /\ Asset(2) = "BTC"
  /\ MedianOfRound(rounds[1]) = 204
  /\ MedianOfRound(rounds[2]) = 200
  /\ published["BTC"].price = parseEther(204)

\* a fetch or a publish of the invocation is under way
InFlight(r) == r.pc \in {"Fetching", "Submitting", "Pending", "Mined"}

\* C24: once stop() has run no timer tick starts a new price-update cycle,
\* and a fetch or publish that is under way is not cancelled: it goes on to
\* its completion or to its own failure.
C24_StopLetsRoundsFinish ==
  [][/\ ~isRunning /\ cycles > 0 => cycles' = cycles
     /\ \A s \in Slots : InFlight(rounds[s]) => rounds'[s].pc # "Exited"]_allVars

\* C25: over any sequence of updatePrice, emergencyUpdatePrice and
\* invalidatePrice the timestamp of the published price never decreases, and
\* an invalidation leaves it as it was.
C25_TimestampNeverDecreases ==
  [][/\ priceData'.timestamp >= priceData.timestamp
     /\ (call'.op = "invalidatePrice" /\ Accepted(call'))
          => /\ priceData'.timestamp = priceData.timestamp
             /\ ~priceData'.valid]_vars

\* a published price has just been invalidated at a later time than its
\* write: it keeps the time of the write
C25_Witness ==
  /\ call.op = "invalidatePrice"
  /\ Accepted(call)
  /\ ~priceData.valid
  /\ priceData.price > 0
  /\ priceData.timestamp = lastWrite
  /\ now > priceData.timestamp

\* tx.wait() of a round of asset a has a transaction that the registry
\* rejected with "Oracle/node-not-active"
Unauthorized(a) ==
  \E s \in Slots :
    /\ rounds[s].pc = "Mined"
    /\ rounds[s].status = "node-not-active"
    /\ Asset(s) = a

\* an invocation started after the failures of asset a began sends a
\* transaction for a
Retried(a) ==
  \E s \in Slots :
    /\ rounds[s].pc = "Submitting"
    /\ Asset(s) = a
    /\ failureCount[a] > 0

\* C26: the first round whose write the registry rejects as not authorized
\* sends an alert when the rejection is caught, and the node does not go on
\* submitting for that asset in the cycles that follow.
C26_AuthorizationFailureSurfaced ==
  /\ [][\A s \in Slots :
          (rounds[s].pc = "Mined" /\ rounds[s].status = "node-not-active"
             /\ rounds'[s] # rounds[s])
            => alertedAt'[Asset(s)] # alertedAt[Asset(s)]]_allVars
  /\ \A a \in OracleAssets : [](Unauthorized(a) => [](~Retried(a)))

\* C27 as stated: for a positive candidate p and at least 3 positive source
\* prices with median m, _validatePrice accepts exactly when
\* |p - m| * 10000 <= 1000 * m; rounding lets no candidate further than 1000
\* basis points through.
C27_AsStated ==
  fnRet # NoFn =>
    (fnRet.result = "true"
       <=> ExactlyWithinDeviation(fnArg.newPrice, fnArg.sourcePrices))

\* C27: for a positive candidate p and at least 3 positive source prices,
\* _validatePrice accepts exactly when the deviation of p from the median in
\* the registry's arithmetic (mean of the two middle values rounded down,
\* basis points rounded down) is at most 1000; every accepted candidate is
\* less than 1001 basis points from that rounded median.
C27_AcceptsUpToWholeBasisPoints ==
  fnRet # NoFn =>
    LET m == WholeMedian(fnArg.sourcePrices)
    IN /\ fnRet.result \in {"true", "false"}
       /\ fnRet.result = "true"
            <=> WholeBasisPoints(fnArg.newPrice, fnArg.sourcePrices) <= MAX_DEVIATION
       /\ fnRet.result = "true"
            => Abs(fnArg.newPrice - m) * 10000 < (MAX_DEVIATION + 1) * m

\* 1110 is 10.01% above the median 1009 and is accepted
C27_Witness ==
  /\ fnRet # NoFn
  /\ fnArg.newPrice = 1110
  /\ fnArg.sourcePrices = <<1009, 1009, 1009>>
  /\ fnRet.result = "true"
  /\ ~ExactlyWithinDeviation(fnArg.newPrice, fnArg.sourcePrices)

\* the arguments of an updatePrice call, as a transaction of a node
ArgsOf(tx) == [price |-> tx.amount, sourcePrices |-> tx.sourcePrices, sources |-> tx.sources]

\* a positive candidate backed by three copies of itself passes the checks
\* of updatePrice for an active caller
SelfSourcedPasses ==
  \A p \in Candidates \ {0} :
    RegistryResult(TRUE, [price |-> p, sourcePrices |-> <<p, p, p>>,
                          sources |-> SubSeq(SourceNames, 1, 3)]) = "ok"

\* C28: the outcome of updatePrice is a function of the caller's active flag
\* and of the arguments of the same call, whatever was published before and
\* whatever else the state holds; an active node's updatePrice(p, [p, p, p],
\* three names) with p > 0 succeeds in every state and publishes p.
C28_AcceptanceFromCallAlone ==
  /\ SelfSourcedPasses
  /\ IsUpdate(call) =>
       /\ call.result = RegistryResult(nodes[call.caller].active, ArgsOf(call))
       /\ ( /\ nodes[call.caller].active
            /\ call.amount > 0
            /\ call.sourcePrices = <<call.amount, call.amount, call.amount>>
            /\ Len(call.sources) = 3 )
          => /\ Accepted(call)
             /\ priceData = PriceData(call.amount, now, TRUE)

\* an active node's updatePrice(1009, [1009, 1009, 1009], three names) has
\* just succeeded as the fourth operation on the registry
C28_Witness ==
  /\ IsUpdate(call)
  /\ Accepted(call)
  /\ call.amount = 1009
  /\ call.sourcePrices = <<1009, 1009, 1009>>
  /\ Len(call.sources) = 3
  /\ ops = MaxOps
  /\ priceData.price = 1009

\* C29: the fetch of every adapter of the round is started before any
\* fetch is settled; fetchPricesFromAllSources returns only when every
\* started fetch is settled; what it returns are the successful readings of
\* exactly those fetches, in source order, with nothing left to arrive.
C29_AllStartedAllSettled ==
  (fnRet # NoFn) =>
    LET fetches == AdaptersCalled(fnArg.asset)
        promises == fnRet.promises
    IN /\ (\E n \in fetches : promises[n].state = "fulfilled")
            => \A n \in fetches : promises[n].state # "unstarted"
       /\ \A n \in skipSources(fnArg.asset) : promises[n].state # "pending"
       /\ fnRet.pc # "returned" => fnRet.value = <<>>
       /\ fnRet.pc = "returned"
            => /\ \A n \in SourceSet : promises[n].state = "fulfilled"
               /\ fnRet.value = fetchPricesFromAllSources(fnArg.asset, fnArg.outcomes)
               /\ ~ENABLED PoolNext

\* DAI with four sources answering: the call has returned their four
\* readings, the two skipped sources were never fetched
C29_Witness ==
  /\ fnRet # NoFn
  /\ fnRet.pc = "returned"
  /\ fnArg.asset = "DAI"
  /\ fnArg.outcomes = FourUp
  /\ Len(fnRet.value) = 4
  /\ fnRet.promises["binance"].value = null

\* withRetry has returned or thrown
RetryDone == fnRet # NoFn /\ fnRet.pc \in {"returned", "thrown"}

\* what holds of a call of withRetry at every moment
RetryBounded ==
  (fnRet # NoFn) =>
    LET R == fnArg.retries
        o == fnArg.attempts
        failed(k) == o[k] # "ok"
    IN /\ fnRet.calls <= R
       /\ \A k \in 1..(fnRet.calls - 1) : failed(k)
       /\ Len(fnRet.sleeps) = IF fnRet.pc = "sleeping" THEN fnRet.calls
                              ELSE fnRet.calls - 1
       /\ \A k \in 1..Len(fnRet.sleeps) : fnRet.sleeps[k] = 1000 * k
       /\ fnRet.pc = "returned"
            => ~failed(fnRet.calls) /\ fnRet.result = fnRet.calls
       /\ fnRet.pc = "thrown"
            => /\ fnRet.calls = R
               /\ failed(R)
               /\ fnRet.error = [attempt |-> R, kind |-> o[R]]
       /\ RetryDone => ~ENABLED RetryNext

\* C30: withRetry(fn, R) with R >= 1 invokes fn at most R times; it returns
\* the first success without another invocation; it waits 1000 ms times the
\* attempt number between a failed attempt and the next and not after the
\* last; after R failures it throws the last error; and it always ends.
C30_RetryBoundedAndEnds == []RetryBounded /\ <>RetryDone

\* three attempts, a timeout, a refusal and a timeout: two waits of 1 s and
\* 2 s, and the third error is thrown
C30_Witness ==
  /\ fnRet # NoFn
  /\ fnArg.attempts = <<"timeout", "refused", "timeout">>
  /\ fnRet.pc = "thrown"
  /\ fnRet.calls = 3
  /\ fnRet.sleeps = <<1000, 2000>>
  /\ fnRet.error = [attempt |-> 3, kind |-> "timeout"]

\* the invocation in slot s moves to pc
Reaches(s, pc) == rounds'[s].pc = pc /\ rounds[s].pc # pc

\* C31: a round whose fetch returns fewer than 3 readings ends there as a
\* failure: no transaction is submitted, the last-known price and the
\* registry are left alone and the asset's counter is raised. A transaction
\* is handed to the provider only from the fetch step, with at least 3
\* readings that passed validatePrice, and reaches the registry only after
\* that (Fetching, Submitting, Pending, Mined in that order).
C31_InsufficientSourcesNotSubmitted ==
  [][\A s \in Slots :
       /\ Reaches(s, "Fetching") => rounds[s].pc = "Begin"
       /\ Reaches(s, "Submitting")
            => /\ rounds[s].pc = "Fetching"
               /\ Len(rounds'[s].sourcePrices) >= 3
               /\ rounds'[s].sourcePrices \in Fetchable(Asset(s))
               /\ validatePrice(rounds'[s].medianPrice,
                                PricesOf(rounds'[s].sourcePrices)) = "ok"
       /\ Reaches(s, "Pending") => rounds[s].pc = "Submitting"
       /\ Reaches(s, "Mined") => rounds[s].pc = "Pending"
       /\ (rounds[s].pc = "Fetching" /\ rounds'[s].pc \notin {"Fetching", "Submitting"})
            => /\ \E sp \in Fetchable(Asset(s)) : Len(sp) < 3
               /\ failureCount'[Asset(s)] = failureCount[Asset(s)] + 1
               /\ lastPrices' = lastPrices
               /\ published' = published
               /\ rounds'[s].pc \in {"Begin", "Idle"}
               /\ rounds'[s].tx = NoTx
       /\ \A a \in AssetSet :
            published'[a] # published[a]
              => \E t \in Slots :
                   Applies(t) /\ Asset(t) = a /\ Len(rounds[t].sourcePrices) >= 3]_allVars

\* the initial invocation has returned: BTC was published from three
\* readings; for DAI, where binance is not asked, fewer than 3 readings came
\* back and nothing was written
C31_Witness ==
  /\ cycles = 1
  /\ rounds[1].pc = "Idle"
  /\ lastPrices["BTC"] = [price |-> 200, sources |-> 3]
  /\ failureCount["DAI"] = 1
  /\ lastPrices["DAI"] = NoPrice
  /\ published["DAI"] = Unpublished

\* the checks among the first n that fail, in the order of the probe
FailingAmong(n, failing) ==
  SelectSeq(SubSeq(HealthChecks, 1, n), LAMBDA c : c \in failing)

\* C32: a health probe makes every check (the provider, the oracle of every
\* asset that has one, BTC on every source) whether or not earlier ones
\* failed; it then sends exactly one alert that lists all failing checks if
\* there is one, and none otherwise; it returns without throwing and leaves
\* the failure counters and the last-known prices as they were.
C32_ProbeRunsAllChecksAlertsOnce ==
  (fnRet # NoFn) =>
    /\ fnRet.checked = SubSeq(HealthChecks, 1, Len(fnRet.checked))
    /\ fnRet.issues = FailingAmong(Len(fnRet.checked), fnArg.failing)
    /\ fnRet.outcome \in {"running", "returned"}
    /\ fnRet.outcome = "running" => fnRet.alerts = <<>>
    /\ fnRet.outcome = "returned"
         => /\ fnRet.checked = HealthChecks
            /\ fnRet.alerts = IF fnArg.failing = {} THEN <<>>
                              ELSE <<FailingAmong(Len(HealthChecks), fnArg.failing)>>
            /\ ~ENABLED HealthNext
    /\ failureCount = [a \in AssetSet |-> 0]
    /\ lastPrices = [a \in AssetSet |-> NoPrice]

\* the provider, DAI's oracle and kraken fail: the probe has made all ten
\* checks and sent one alert with the three issues
C32_Witness ==
  /\ fnRet # NoFn
  /\ fnRet.outcome = "returned"
  /\ Len(fnRet.checked) = 10
  /\ fnArg.failing = {[kind |-> "blockchain", of |-> "provider"],
                      [kind |-> "oracle", of |-> "DAI"],
                      [kind |-> "source", of |-> "kraken"]}
  /\ Len(fnRet.alerts) = 1
  /\ Len(fnRet.alerts[1]) = 3

\* C33: in every reachable state of the registry a price that is stored as
\* valid is positive and carries a positive timestamp.
C33_ValidPriceIsPositive ==
  priceData.valid => priceData.price > 0 /\ priceData.timestamp > 0

\* a ward's emergencyUpdatePrice(0) has just been rejected and the price
\* published before it stands, valid and positive
C33_Witness ==
  /\ call.op = "emergencyUpdatePrice"
  /\ call.amount = 0
  /\ call.result = "invalid-price"
  /\ priceData.valid
  /\ priceData.price > 0
  /\ priceData.timestamp = lastWrite

\* C34: in every reachable state and at every time read() succeeds exactly
\* when peek() reports valid = true, and then returns the price peek()
\* returns; read() reverts when the price was invalidated and when it is
\* older than STALENESS_THRESHOLD.
C34_ReadAgreesWithPeek ==
  /\ (Read = "ok") <=> Peek.valid
  /\ Read = "ok" => ReadPrice = Peek.price
  /\ ~priceData.valid => Read = "invalid-price"
  /\ now - priceData.timestamp > STALENESS_THRESHOLD => Read # "ok"

\* a price published 3601 s ago and not invalidated: read() reverts as
\* stale and peek() reports it as not valid
C34_Witness ==
  /\ priceData.valid
  /\ lastWrite >= 0
  /\ now - lastWrite = STALENESS_THRESHOLD + 1
  /\ Read = "stale-price"
  /\ ~Peek.valid
  /\ Peek.price > 0

\* C35: after any sequence of deployOracle and updateOracle calls the two
\* mappings of the factory are inverse of each other, and no oracle address
\* is registered for two assets.
C35_MappingsInverse ==
  /\ \A a \in FactoryAssets :
       oracles[a] # ZeroAddr => oracleAssets[oracles[a]] = a
  /\ \A o \in OracleAddrs :
       oracleAssets[o] # ZeroAsset => oracles[oracleAssets[o]] = o
  /\ \A a, b \in FactoryAssets :
       (a # b /\ oracles[a] # ZeroAddr) => oracles[a] # oracles[b]

\* C36: for USDT, binance, kucoin, kraken and okx return the constant 1.0
\* without a request, so every round gathers at least 3 readings and its
\* median is exactly 1.0, whatever the three remaining sources do.
C36_UsdtRoundIsOne ==
  (fnRet.name = "updateAssetPrice" /\ fnArg.name = "updateAssetPrice"
     /\ fnArg.asset = "USDT") =>
    /\ Len(fnRet.sourcePrices) >= 3
    /\ fnRet.accepted
    /\ fnRet.medianPrice = JsNumber(1)
    /\ \A n \in FixedPriceSources("USDT") :
         \E i \in 1..Len(fnRet.sourcePrices) :
           fnRet.sourcePrices[i] = [source |-> n, price |-> JsNumber(1)]

\* a USDT round in which the three remaining sources all answer 0.5 and
\* the requests of the four fixed sources would have failed
C36_Witness ==
  /\ fnRet.name = "updateAssetPrice"
  /\ fnArg.name = "updateAssetPrice"
  /\ fnArg.asset = "USDT"
  /\ \A n \in FixedPriceSources("USDT") : fnArg.responses[n] = Throws
  /\ \A n \in SourceSet \ FixedPriceSources("USDT") : fnArg.responses[n] = Up(1)
  /\ Len(fnRet.sourcePrices) = 7
  /\ fnRet.medianPrice = JsNumber(1)


\* C37: in every reachable state of an oracle at least one identity is a
\* ward, so that no sequence of rely and deny calls leaves the ward set
\* empty and the administrative operations uncallable.
C37_SomeWard == \E a \in Addr : wards[a] = 1


\* C38: a round that passes the node's local checks (at least 3 readings,
\* each positive, the candidate their median, the deviation within the
\* limit) passes every value check of updatePrice when an active publisher
\* submits it: the registry rejects it neither for the price, nor for the
\* source count, nor for the array lengths, nor for the deviation.
C38_NodeAcceptanceImpliesRegistryAcceptance ==
  (fnRet.name = "updateAssetPrice" /\ fnArg.name = "updateAssetPrice"
     /\ "sourcePrices" \in DOMAIN fnArg /\ fnRet.accepted) =>
    /\ Len(fnArg.sourcePrices) >= 3
    /\ \A i \in 1..Len(fnArg.sourcePrices) : fnArg.sourcePrices[i].price > 0
    /\ fnRet.medianPrice = calculateMedian(PricesOf(fnArg.sourcePrices))
    /\ fnRet.tx.price > 0
    /\ Len(fnRet.tx.sourcePrices) >= MIN_SOURCES
    /\ Len(fnRet.tx.sourcePrices) = Len(fnRet.tx.sources)
    /\ ValidatePrice(fnRet.tx.price, fnRet.tx.sourcePrices) = "true"
    /\ RegistryResult(TRUE, fnRet.tx) = "ok"

\* four readings whose two middle values differ are accepted by the node
\* with their mean as candidate, and the registry accepts the transaction
C38_Witness ==
  /\ fnRet.name = "updateAssetPrice"
  /\ fnArg.name = "updateAssetPrice"
  /\ "sourcePrices" \in DOMAIN fnArg
  /\ fnRet.accepted
  /\ Len(fnArg.sourcePrices) = 4
  /\ \A i \in 1..4 : fnArg.sourcePrices[i].price # fnRet.medianPrice
  /\ RegistryResult(TRUE, fnRet.tx) = "ok"


\* no round of the asset is in flight in the given invocation slots
Quiet(rs, asset) ==
  \A s \in Slots : ~(InFlight(rs[s]) /\ Assets[rs[s].idx] = asset)

\* the second invocation slot was never taken: no updateAllPrices has been
\* started while another one was running (a taken slot is left with a
\* non-empty attempted set)
NeverOverlapped(rs) == rs[2] = IdleRound({})

\* the last known price changes only in the step that completes a confirmed
\* round of the asset, to that round's median
ChangesOnlyOnConfirmedPublish(asset) ==
  lastPrices'[asset] # lastPrices[asset] =>
    \E s \in Slots :
      /\ Completes(s)
      /\ Asset(s) = asset
      /\ lastPrices'[asset].price = rounds[s].medianPrice
      /\ lastPrices'[asset].sources = Len(rounds[s].sourcePrices)

\* C39 as stated: lastPrices[asset] changes only when a publish of the
\* asset was confirmed and no failed round changes it; whenever no round of
\* the asset is in flight, also after two overlapping rounds, it is the
\* price of the node's write the registry applied last.
C39_AsStated ==
  [][\A a \in AssetSet :
       /\ ChangesOnlyOnConfirmedPublish(a)
       /\ Quiet(rounds', a) =>
            parseEther(lastPrices'[a].price) = published'[a].price]_allVars

\* C39: lastPrices[asset] changes only when a publish of the asset was
\* confirmed, to that round's median, and no failed round changes it; as
\* long as no invocation was started while another was running, whenever no
\* round of the asset is in flight it is the price of the node's write the
\* registry applied last.
C39_LastPriceFollowsConfirmedPublish ==
  [][\A a \in AssetSet :
       /\ ChangesOnlyOnConfirmedPublish(a)
       /\ (Quiet(rounds', a) /\ NeverOverlapped(rounds')) =>
            parseEther(lastPrices'[a].price) = published'[a].price]_allVars

\* two invocations one after the other: the first published 204 for BTC,
\* BTC's round of the second failed and left the last known price alone
C39_Witness ==
  /\ cycles = 2
  /\ rounds[1].pc = "Idle"
  /\ NeverOverlapped(rounds)
  /\ failureCount["BTC"] = 1
  /\ lastPrices["BTC"] = [price |-> 204, sources |-> 4]
  /\ published["BTC"].price = parseEther(204)
  /\ published["BTC"].valid

====
